---- MODULE Spec2Model ----
(***************************************************************************)
(* A model of the K# front end: the lexical scanner of KSHARP2.0.C (cursor, *)
(* keyword trie, scanners, table writer) and the syntax analyzer of         *)
(* KSHARP_SYNTAX2.0.c (table loader, recursive-descent parser).             *)
(*                                                                         *)
(* Characters are one-character strings; a C string is a sequence of       *)
(* characters; a pointer to a string is NULL or Ptr(s).                    *)
(***************************************************************************)
EXTENDS Integers, Sequences, FiniteSets, TLC

(* ---------------- bounds of the model ---------------- *)

\* longest source text enumerated exhaustively over ScanAlphabet
MaxSrcLen == 3

\* longest word over KwLetters asked of is_keyword exhaustively
MaxKwLen == 2

\* most rows of a table enumerated exhaustively over RowAlphabet
MaxRows == 3

\* longest source text run through both programs exhaustively over PipeAlphabet
MaxPipeLen == 2
\* longest body of the string literals run through the scanner exhaustively
MaxStrLen == 3

\* largest magnitude of the values the character classifier is asked about
MaxCode == 300

\* longest text the two cursors are run over exhaustively
MaxCurLen == 3

(* ---------------- characters ---------------- *)

\* stdio's end-of-input sentinel, a value no character equals
EOF == "EOF"
\* the string terminator '\0'
NUL == "NUL"

NULL == <<>>
Ptr(s) == <<s>>
Deref(p) == p[1]

UpperSeq == <<"A","B","C","D","E","F","G","H","I","J","K","L","M","N","O","P","Q","R","S","T","U","V","W","X","Y","Z">>
LowerSeq == <<"a","b","c","d","e","f","g","h","i","j","k","l","m","n","o","p","q","r","s","t","u","v","w","x","y","z">>
DigitSeq == <<"0","1","2","3","4","5","6","7","8","9">>

Range(s) == { s[i] : i \in 1..Len(s) }

isdigit(c) == c \in Range(DigitSeq)
isalpha(c) == c \in Range(UpperSeq) \cup Range(LowerSeq)
isalnum(c) == isalpha(c) \/ isdigit(c)
isspace(c) == c \in {" ", "\t", "\n", "\r"}

lowerc(ch) ==
  IF ch \in Range(UpperSeq)
  THEN LowerSeq[CHOOSE i \in 1..26 : UpperSeq[i] = ch]
  ELSE ch

\* the bytes a C string occupies in memory
Mem(str) == str \o <<NUL>>

\* the C string stored in a byte array: the bytes before the first NUL
CStr(bytes) ==
  IF \E i \in 1..Len(bytes) : bytes[i] = NUL
  THEN SubSeq(bytes, 1, (CHOOSE i \in 1..Len(bytes) :
                           bytes[i] = NUL /\ \A j \in 1..(i-1) : bytes[j] # NUL) - 1)
  ELSE bytes

strlen(mem) == Len(CStr(mem))

dup_n(s, n) == CStr(SubSeq(s, 1, n))

dup_s(s) == dup_n(s, strlen(s))

(* ---------------- token kinds of the scanner ---------------- *)

TOK_IDENTIFIER    == "TOK_IDENTIFIER"
TOK_KEYWORD       == "TOK_KEYWORD"
TOK_RESERVED_TYPE == "TOK_RESERVED_TYPE"
TOK_CONST_INT     == "TOK_CONST_INT"
TOK_CONST_FLOAT   == "TOK_CONST_FLOAT"
TOK_CONST_CHAR    == "TOK_CONST_CHAR"
TOK_CONST_BOOL    == "TOK_CONST_BOOL"
TOK_CONST_STRING  == "TOK_CONST_STRING"
TOK_OP_ARITH      == "TOK_OP_ARITH"
TOK_OP_REL        == "TOK_OP_REL"
TOK_OP_LOGIC      == "TOK_OP_LOGIC"
TOK_ASSIGN        == "TOK_ASSIGN"
TOK_DELIM         == "TOK_DELIM"
TOK_BRACKET       == "TOK_BRACKET"
TOK_COMMENT       == "TOK_COMMENT"
TOK_NOISE         == "TOK_NOISE"
TOK_UNKNOWN       == "TOK_UNKNOWN"
TOK_EOF           == "TOK_EOF"

(* ---------------- cursor over the in-memory buffer ---------------- *)

\* the Lexer of main(): the whole text, position 0, line 1, column 1
NewLexer(text) == [buf |-> text, len |-> Len(text), pos |-> 0, line |-> 1, col |-> 1]

\* faulty variant of peek: reports the end of the input one character early
peek_early_eof(l) == IF l.pos + 1 < l.len THEN l.buf[l.pos + 1] ELSE EOF

peek(l) == IF l.pos < l.len THEN l.buf[l.pos + 1] ELSE EOF

\* faulty variant of advance: at the end of the input the offset still moves
advance_past_end(l) ==
  IF l.pos >= l.len
  THEN [L |-> [l EXCEPT !.pos = @ + 1], c |-> EOF]
  ELSE LET c == l.buf[l.pos + 1] IN
       [L |-> IF c = "\n"
              THEN [l EXCEPT !.pos = @ + 1, !.line = @ + 1, !.col = 1]
              ELSE [l EXCEPT !.pos = @ + 1, !.col = @ + 1],
        c |-> c]

advance(l) ==
  IF l.pos >= l.len
  THEN [L |-> l, c |-> EOF]
  ELSE LET c == l.buf[l.pos + 1] IN
       [L |-> IF c = "\n"
              THEN [l EXCEPT !.pos = @ + 1, !.line = @ + 1, !.col = 1]
              ELSE [l EXCEPT !.pos = @ + 1, !.col = @ + 1],
        c |-> c]

\* faulty variant of match: never matches, never consumes
match_never(l, ch) == [L |-> l, r |-> 0]

match(l, ch) ==
  IF peek(l) = ch THEN [L |-> advance(l).L, r |-> 1] ELSE [L |-> l, r |-> 0]

RECURSIVE skip_ws(_)
skip_ws(l) ==
  LET c == peek(l) IN
  IF c = " " \/ c = "\t" \/ c = "\r" \/ c = "\n"
  THEN skip_ws(advance(l).L)
  ELSE l

\* the bytes at buf + start
BufAt(l, start) == Mem(SubSeq(l.buf, start + 1, l.len))

make(l, ty, s, n, extra) ==
  [type   |-> ty,
   lexeme |-> IF s # NULL THEN Ptr(dup_n(Deref(s), n)) ELSE NULL,
   line   |-> l.line,
   col    |-> l.col,
   extra  |-> IF extra # NULL THEN Ptr(dup_s(Deref(extra))) ELSE NULL]

\* a string literal of the source used as a const char* argument
Lit(str) == Ptr(Mem(str))

(* ---------------- keyword trie (DFA) ---------------- *)

KEYWORDS ==
  << <<"i","f">>,
     <<"e","l","s","e">>,
     <<"e","l","s","e","i","f">>,
     <<"f","o","r">>,
     <<"w","h","i","l","e">>,
     <<"d","o">>,
     <<"s","w","i","t","c","h">>,
     <<"c","a","s","e">>,
     <<"d","e","f","a","u","l","t">>,
     <<"b","r","e","a","k">>,
     <<"c","o","n","t","i","n","u","e">>,
     <<"r","e","t","u","r","n">>,
     <<"p","r","i","n","t">>,
     <<"i","n","p","u","t">>,
     <<"w","r","i","t","e","l","n">>,
     <<"r","e","a","d","l","n">>,
     <<"b","e","g","i","n">>,
     <<"e","n","d">>,
     <<"t","h","e","n">>,
     <<"o","f">>,
     <<"r","e","p","e","a","t">>,
     <<"u","n","t","i","l">> >>

KEYWORD_COUNT == Len(KEYWORDS)
DFA_MAX_ROOTS == 64
DFA_MAX_CHILDREN == 31

\* the C character s[k] of the bytes at pointer s
Ch(s, k) == s[k + 1]

\* faulty variant of dfa_init_chain: every node of a new chain is marked as the
\* end of a word
RECURSIVE dfa_init_chain_all_leaves(_, _, _)
dfa_init_chain_all_leaves(symbol, index, len) ==
  IF len = 0 THEN NULL
  ELSE IF index = len THEN NULL
  ELSE LET root  == [val |-> Ch(symbol, index), cSize |-> 0, isLeaf |-> 1,
                     children |-> <<>>]
           child == dfa_init_chain_all_leaves(symbol, index + 1, len)
       IN Ptr(IF child # NULL
              THEN [root EXCEPT !.children = Append(@, Deref(child)), !.cSize = @ + 1]
              ELSE root)

\* A DFANode is [val, isLeaf, cSize, children]; children holds the cSize used
\* entries of the node's child array, in array order.
RECURSIVE dfa_init_chain(_, _, _)
dfa_init_chain(symbol, index, len) ==
  IF len = 0 THEN NULL
  ELSE IF index = len THEN NULL
  ELSE LET root  == [val |-> Ch(symbol, index), cSize |-> 0,
                     isLeaf |-> IF index = len - 1 THEN 1 ELSE 0,
                     children |-> <<>>]
           child == dfa_init_chain(symbol, index + 1, len)
       IN Ptr(IF child # NULL /\ root.cSize < DFA_MAX_CHILDREN
              THEN [root EXCEPT !.children = Append(@, Deref(child)), !.cSize = @ + 1]
              ELSE root)

\* faulty variant of dfa_brute_LCA: the children are not searched, the rest of
\* the word always gets a new child
dfa_brute_LCA_never_reuses(root, symbol, index, len) ==
  IF index >= len THEN [root EXCEPT !.isLeaf = 1]
  ELSE IF root.cSize < DFA_MAX_CHILDREN
  THEN LET child == dfa_init_chain(symbol, index, len) IN
       IF child # NULL
       THEN [root EXCEPT !.children = Append(@, Deref(child)), !.cSize = @ + 1]
       ELSE root
  ELSE root

RECURSIVE dfa_brute_LCA(_, _, _, _)
dfa_brute_LCA(root, symbol, index, len) ==
  IF index >= len THEN [root EXCEPT !.isLeaf = 1]
  ELSE IF \E i \in 1..root.cSize : Ch(symbol, index) = root.children[i].val
  THEN LET i == CHOOSE k \in 1..root.cSize :
                  /\ Ch(symbol, index) = root.children[k].val
                  /\ \A j \in 1..(k-1) : Ch(symbol, index) # root.children[j].val
       IN [root EXCEPT !.children[i] = dfa_brute_LCA(@, symbol, index + 1, len)]
  ELSE IF root.cSize < DFA_MAX_CHILDREN
  THEN LET child == dfa_init_chain(symbol, index, len) IN
       IF child # NULL
       THEN [root EXCEPT !.children = Append(@, Deref(child)), !.cSize = @ + 1]
       ELSE root
  ELSE root

\* faulty variant of dfa_add_symbol: a root with the same first character is
\* not looked for, every word gets a chain of its own
dfa_add_symbol_never_reuses(head, symbol) ==
  LET len == strlen(symbol) IN
  IF len = 0 THEN head
  ELSE IF head.sSize < DFA_MAX_ROOTS
  THEN [head EXCEPT !.start = Append(@, dfa_init_chain(symbol, 0, len)), !.sSize = @ + 1]
  ELSE head

\* A DFA is [start, sSize]; start holds the sSize used entries of the root
\* array.  An entry is a pointer: dfa_init_chain's result is stored unchecked.
dfa_add_symbol(head, symbol) ==
  LET len == strlen(symbol) IN
  IF len = 0 THEN head
  ELSE IF \E i \in 1..head.sSize : Ch(symbol, 0) = Deref(head.start[i]).val
  THEN LET i == CHOOSE k \in 1..head.sSize :
                  /\ Ch(symbol, 0) = Deref(head.start[k]).val
                  /\ \A j \in 1..(k-1) : Ch(symbol, 0) # Deref(head.start[j]).val
       IN [head EXCEPT !.start[i] = Ptr(dfa_brute_LCA(Deref(@), symbol, 1, len))]
  ELSE IF head.sSize < DFA_MAX_ROOTS
  THEN [head EXCEPT !.start = Append(@, dfa_init_chain(symbol, 0, len)), !.sSize = @ + 1]
  ELSE head

\* faulty variant of dfa_match's loop: the final-state flag is not consulted
RECURSIVE dfa_match_walk_any(_, _, _, _)
dfa_match_walk_any(node, symbol, idx, len) ==
  IF idx < len
  THEN IF \E c \in 1..node.cSize : Ch(symbol, idx) = node.children[c].val
       THEN LET c == CHOOSE k \in 1..node.cSize :
                       /\ Ch(symbol, idx) = node.children[k].val
                       /\ \A j \in 1..(k-1) : Ch(symbol, idx) # node.children[j].val
            IN dfa_match_walk_any(node.children[c], symbol, idx + 1, len)
       ELSE 0
  ELSE 1

\* the while loop of dfa_match from node at index idx
RECURSIVE dfa_match_walk(_, _, _, _)
dfa_match_walk(node, symbol, idx, len) ==
  IF idx < len
  THEN IF \E c \in 1..node.cSize : Ch(symbol, idx) = node.children[c].val
       THEN LET c == CHOOSE k \in 1..node.cSize :
                       /\ Ch(symbol, idx) = node.children[k].val
                       /\ \A j \in 1..(k-1) : Ch(symbol, idx) # node.children[j].val
            IN dfa_match_walk(node.children[c], symbol, idx + 1, len)
       ELSE 0
  ELSE IF node.isLeaf # 0 THEN 1 ELSE 0

dfa_match(head, symbol, len) ==
  IF len = 0 THEN 0
  ELSE IF \E i \in 1..head.sSize : Ch(symbol, 0) = Deref(head.start[i]).val
  THEN LET i == CHOOSE k \in 1..head.sSize :
                  /\ Ch(symbol, 0) = Deref(head.start[k]).val
                  /\ \A j \in 1..(k-1) : Ch(symbol, 0) # Deref(head.start[j]).val
       IN dfa_match_walk(Deref(head.start[i]), symbol, 1, len)
  ELSE 0

\* the zero-initialised globals kw_dfa and kw_dfa_built
KwGlobals0 == [kw_dfa |-> [start |-> <<>>, sSize |-> 0], kw_dfa_built |-> 0]

\* the insertion loop of build_keyword_dfa from KEYWORDS[i] on
RECURSIVE build_keyword_loop(_, _)
build_keyword_loop(head, i) ==
  IF i < KEYWORD_COUNT
  THEN build_keyword_loop(dfa_add_symbol(head, Mem(KEYWORDS[i + 1])), i + 1)
  ELSE head

\* the trie build_keyword_dfa leaves in kw_dfa: every keyword inserted, in
\* the order of KEYWORDS, into the zeroed trie
KeywordDfa == build_keyword_loop([start |-> <<>>, sSize |-> 0], 0)

build_keyword_dfa(g) ==
  IF g.kw_dfa_built # 0 THEN g
  ELSE [kw_dfa |-> KeywordDfa, kw_dfa_built |-> 1]

\* is_keyword returns r and leaves the globals G
is_keyword(g, s, n) ==
  LET G == build_keyword_dfa(g) IN [G |-> G, r |-> dfa_match(G.kw_dfa, s, n)]

(* ---------------- word classifiers ---------------- *)

is_type(s, n) ==
  LET c == lowerc(Ch(s, 0)) IN
  IF c = "i" THEN n = 3 /\ Ch(s,1) = "n" /\ Ch(s,2) = "t"
  ELSE IF c = "f" THEN n = 5 /\ Ch(s,1) = "l" /\ Ch(s,2) = "o" /\ Ch(s,3) = "a" /\ Ch(s,4) = "t"
  ELSE IF c = "c" THEN n = 4 /\ Ch(s,1) = "h" /\ Ch(s,2) = "a" /\ Ch(s,3) = "r"
  ELSE IF c = "b" THEN n = 4 /\ Ch(s,1) = "o" /\ Ch(s,2) = "o" /\ Ch(s,3) = "l"
  ELSE IF c = "v" THEN n = 4 /\ Ch(s,1) = "o" /\ Ch(s,2) = "i" /\ Ch(s,3) = "d"
  ELSE FALSE

is_noise(s, n) ==
  LET c == lowerc(Ch(s, 0)) IN
  IF c = "p" THEN n = 6 /\ Ch(s,1) = "l" /\ Ch(s,2) = "e" /\ Ch(s,3) = "a" /\ Ch(s,4) = "s" /\ Ch(s,5) = "e"
  ELSE IF c = "t" THEN IF n = 4 /\ Ch(s,1) = "h" /\ Ch(s,2) = "e" /\ Ch(s,3) = "n" THEN TRUE
                       ELSE IF n = 2 /\ Ch(s,1) = "o" THEN TRUE
                       ELSE FALSE
  ELSE IF c = "d" THEN n = 2 /\ Ch(s,1) = "o"
  ELSE IF c = "e" THEN n = 3 /\ Ch(s,1) = "n" /\ Ch(s,2) = "d"
  ELSE IF c = "b" THEN n = 5 /\ Ch(s,1) = "e" /\ Ch(s,2) = "g" /\ Ch(s,3) = "i" /\ Ch(s,4) = "n"
  ELSE IF c = "o" THEN n = 2 /\ Ch(s,1) = "f"
  ELSE IF c = "a" THEN n = 3 /\ Ch(s,1) = "n" /\ Ch(s,2) = "d"
  ELSE IF c = "f" THEN n = 4 /\ Ch(s,1) = "r" /\ Ch(s,2) = "o" /\ Ch(s,3) = "m"
  ELSE FALSE

\* 1 for true, 0 for false, -1 when not a boolean literal
is_bool_lit(s, n) ==
  IF n = 4 /\ lowerc(Ch(s,0)) = "t" /\ Ch(s,1) = "r" /\ Ch(s,2) = "u" /\ Ch(s,3) = "e" THEN 1
  ELSE IF n = 5 /\ lowerc(Ch(s,0)) = "f" /\ Ch(s,1) = "a" /\ Ch(s,2) = "l" /\ Ch(s,3) = "s" /\ Ch(s,4) = "e" THEN 0
  ELSE -1

\* r is the result, extra the value left in *out_extra (NULL when not written)
is_word_op(s, n) ==
  IF n = 3
  THEN LET a == lowerc(Ch(s,0))
           b == lowerc(Ch(s,1))
           c == lowerc(Ch(s,2))
       IN IF a = "d" /\ b = "i" /\ c = "v" THEN [r |-> 1, extra |-> Lit(<<"D","I","V">>)]
          ELSE IF a = "m" /\ b = "o" /\ c = "d" THEN [r |-> 1, extra |-> Lit(<<"M","O","D">>)]
          ELSE [r |-> 0, extra |-> NULL]
  ELSE [r |-> 0, extra |-> NULL]

(* ---------------- scanners ---------------- *)
\* Each scanner returns the lexer it leaves (L) and the token it built (t).

\* the while loop of scan_string: the lexer where it stops and whether it
\* stopped on the closing quote
RECURSIVE scan_string_loop(_)
scan_string_loop(l) ==
  LET c == peek(l) IN
  IF c = EOF THEN [L |-> l, closed |-> FALSE]
  ELSE IF c = "\\"
  THEN LET l1 == advance(l).L IN
       scan_string_loop(IF peek(l1) # EOF THEN advance(l1).L ELSE l1)
  ELSE IF c = "\"" THEN [L |-> l, closed |-> TRUE]
  ELSE IF c = "\n" THEN [L |-> l, closed |-> FALSE]
  ELSE scan_string_loop(advance(l).L)

scan_string(l) ==
  LET col0 == l.col
      l1   == advance(l).L
      p    == l1.pos
      e    == scan_string_loop(l1)
  IN IF e.closed
     THEN LET n == e.L.pos - p
              t == make(e.L, TOK_CONST_STRING, Ptr(BufAt(l, p)), n, NULL)
          IN [L |-> advance(e.L).L, t |-> [t EXCEPT !.col = col0]]
     ELSE [L |-> e.L,
           t |-> make(e.L, TOK_UNKNOWN,
                      Lit(<<"<","u","n","t","e","r","m","i","n","a","t","e","d","_","s","t","r","i","n","g",">">>),
                      22, NULL)]

scan_char(l) ==
  LET col0 == l.col
      l1   == advance(l).L
      a    == advance(l1)
      l2   == IF a.c = "\\" THEN advance(a.L).L ELSE a.L
  IN IF peek(l2) = "'"
     THEN LET l3 == advance(l2).L
              t  == make(l3, TOK_CONST_CHAR, Lit(<<"<","c","h","a","r",">">>), 6, NULL)
          IN [L |-> l3, t |-> [t EXCEPT !.col = col0]]
     ELSE [L |-> l2,
           t |-> make(l2, TOK_UNKNOWN,
                      Lit(<<"<","u","n","t","e","r","m","i","n","a","t","e","d","_","c","h","a","r",">">>),
                      20, NULL)]

\* while (isdigit(peek(L))) advance(L);
RECURSIVE scan_digits(_)
scan_digits(l) == IF isdigit(peek(l)) THEN scan_digits(advance(l).L) ELSE l

\* faulty variant of scan_number: a dot with no digit after it ends a float
scan_number_dot_ends_float(l) ==
  LET start == l.pos
      col0  == l.col
      l1    == scan_digits(l)
      isf   == peek(l1) = "."
      l3    == IF isf THEN scan_digits(advance(l1).L) ELSE l1
      t     == make(l3, IF isf THEN TOK_CONST_FLOAT ELSE TOK_CONST_INT,
                    Ptr(BufAt(l, start)), l3.pos - start, NULL)
  IN [L |-> l3, t |-> [t EXCEPT !.col = col0]]

scan_number(l) ==
  LET start == l.pos
      col0  == l.col
      l1    == scan_digits(l)
  IN IF peek(l1) = "."
     THEN LET l2 == advance(l1).L IN
          IF ~isdigit(peek(l2))
          THEN [L |-> l2,
                t |-> make(l2, TOK_UNKNOWN,
                           Lit(<<"<","b","a","d","_","f","l","o","a","t",">">>), 10, NULL)]
          ELSE LET l3 == scan_digits(l2)
                   n  == l3.pos - start
                   t  == make(l3, TOK_CONST_FLOAT, Ptr(BufAt(l, start)), n, NULL)
               IN [L |-> l3, t |-> [t EXCEPT !.col = col0]]
     ELSE LET n == l1.pos - start
              t == make(l1, TOK_CONST_INT, Ptr(BufAt(l, start)), n, NULL)
          IN [L |-> l1, t |-> [t EXCEPT !.col = col0]]

\* while (isalnum(peek(L)) || peek(L)=='_') advance(L);
RECURSIVE scan_word_rest(_)
scan_word_rest(l) ==
  IF isalnum(peek(l)) \/ peek(l) = "_" THEN scan_word_rest(advance(l).L) ELSE l

\* faulty variant of scan_identifier_or_keyword: noise words are tested
\* before keywords
scan_identifier_or_keyword_noise_first(l, g) ==
  LET start == l.pos
      col0  == l.col
      l1    == scan_word_rest(advance(l).L)
      n     == l1.pos - start
      s     == BufAt(l, start)
      b     == is_bool_lit(s, n)
      w     == is_word_op(s, n)
      k     == is_keyword(g, s, n)
      Word(ty, extra) == [make(l1, ty, Ptr(s), n, extra) EXCEPT !.col = col0]
  IN IF b # -1 THEN [L |-> l1, t |-> Word(TOK_CONST_BOOL, NULL), G |-> g]
     ELSE IF w.r # 0 THEN [L |-> l1, t |-> Word(TOK_OP_ARITH, w.extra), G |-> g]
     ELSE IF is_type(s, n) THEN [L |-> l1, t |-> Word(TOK_RESERVED_TYPE, NULL), G |-> g]
     ELSE IF is_noise(s, n) THEN [L |-> l1, t |-> Word(TOK_NOISE, NULL), G |-> g]
     ELSE IF k.r # 0 THEN [L |-> l1, t |-> Word(TOK_KEYWORD, NULL), G |-> k.G]
     ELSE [L |-> l1, t |-> Word(TOK_IDENTIFIER, NULL), G |-> k.G]

\* also returns the keyword globals (G), which is_keyword may build
scan_identifier_or_keyword(l, g) ==
  LET start == l.pos
      col0  == l.col
      l1    == scan_word_rest(advance(l).L)
      n     == l1.pos - start
      s     == BufAt(l, start)
      b     == is_bool_lit(s, n)
      w     == is_word_op(s, n)
      k     == is_keyword(g, s, n)
      Word(ty, extra) == [make(l1, ty, Ptr(s), n, extra) EXCEPT !.col = col0]
  IN IF b # -1 THEN [L |-> l1, t |-> Word(TOK_CONST_BOOL, NULL), G |-> g]
     ELSE IF w.r # 0 THEN [L |-> l1, t |-> Word(TOK_OP_ARITH, w.extra), G |-> g]
     ELSE IF is_type(s, n) THEN [L |-> l1, t |-> Word(TOK_RESERVED_TYPE, NULL), G |-> g]
     ELSE IF k.r # 0 THEN [L |-> l1, t |-> Word(TOK_KEYWORD, NULL), G |-> k.G]
     ELSE IF is_noise(s, n) THEN [L |-> l1, t |-> Word(TOK_NOISE, NULL), G |-> k.G]
     ELSE [L |-> l1, t |-> Word(TOK_IDENTIFIER, NULL), G |-> k.G]

\* while (peek(L)!=EOF && peek(L)!='\n') advance(L);
RECURSIVE scan_line_rest(_)
scan_line_rest(l) ==
  IF peek(l) # EOF /\ peek(l) # "\n" THEN scan_line_rest(advance(l).L) ELSE l

\* faulty variant of scan_block_loop: any '/' closes the comment
RECURSIVE scan_block_loop_slash_closes(_, _)
scan_block_loop_slash_closes(l, prev) ==
  LET a == advance(l) IN
  IF a.c = EOF THEN [L |-> a.L, closed |-> FALSE]
  ELSE IF a.c = "/" THEN [L |-> a.L, closed |-> TRUE]
  ELSE scan_block_loop_slash_closes(a.L, a.c)

\* the while loop of the block comment: the lexer where it stops and whether
\* it stopped on the closing "*/"
RECURSIVE scan_block_loop(_, _)
scan_block_loop(l, prev) ==
  LET a == advance(l) IN
  IF a.c = EOF THEN [L |-> a.L, closed |-> FALSE]
  ELSE IF prev = "*" /\ a.c = "/" THEN [L |-> a.L, closed |-> TRUE]
  ELSE scan_block_loop(a.L, a.c)

scan_slash_comment_or_op(l) ==
  LET col0 == l.col
      m1   == match(l, "/")
  IN IF m1.r # 0
     THEN LET m2 == match(m1.L, "/") IN
          IF m2.r # 0
          THEN LET l3 == scan_line_rest(m2.L)
                   t  == make(l3, TOK_COMMENT, Lit(<<"/","/">>), 2, NULL)
               IN [L |-> l3, t |-> [t EXCEPT !.col = col0]]
          ELSE LET m3 == match(m1.L, "*") IN
               IF m3.r # 0
               THEN LET e == scan_block_loop(m3.L, NUL) IN
                    IF e.closed
                    THEN LET t == make(e.L, TOK_COMMENT, Lit(<<"/","*"," ","*","/">>), 5, NULL)
                         IN [L |-> e.L, t |-> [t EXCEPT !.col = col0]]
                    ELSE [L |-> e.L,
                          t |-> make(e.L, TOK_UNKNOWN,
                                     Lit(<<"<","u","n","t","e","r","m","i","n","a","t","e","d","_","c","o","m","m","e","n","t",">">>),
                                     22, NULL)]
               ELSE LET t == make(m1.L, TOK_OP_ARITH, Lit(<<"/">>), 1, Lit(<<"/">>))
                    IN [L |-> m1.L, t |-> [t EXCEPT !.col = col0]]
     ELSE LET a == advance(l) IN
          [L |-> a.L, t |-> make(a.L, TOK_UNKNOWN, Ptr(<<a.c, NUL>>), 1, NULL)]

\* faulty variant of scan_operator: a character that is no operator is
\* reported unknown without being consumed
scan_operator_keeps_unknown(l) ==
  LET c == peek(l) IN
  [L |-> l, t |-> make(l, TOK_UNKNOWN, Ptr(<<c, NUL>>), 1, NULL)]

\* one line of scan_operator's two-character table: first character, second
\* character, token kind
TwoCharOps ==
  << <<"=", "=", TOK_OP_REL>>,
     <<"!", "=", TOK_OP_REL>>,
     <<"<", "=", TOK_OP_REL>>,
     <<">", "=", TOK_OP_REL>>,
     <<"&", "&", TOK_OP_LOGIC>>,
     <<"|", "|", TOK_OP_LOGIC>>,
     <<"*", "*", TOK_OP_ARITH>> >>

scan_operator(l) ==
  LET col0 == l.col
      a    == advance(l)
      c    == a.c
      l1   == a.L
      Fix(t) == [t EXCEPT !.col = col0]
      s2   == Ptr(<<c, NUL>>)
  IN IF \E i \in 1..Len(TwoCharOps) : c = TwoCharOps[i][1] /\ match(l1, TwoCharOps[i][2]).r # 0
     THEN LET i  == CHOOSE k \in 1..Len(TwoCharOps) :
                      c = TwoCharOps[k][1] /\ match(l1, TwoCharOps[k][2]).r # 0
              l2 == match(l1, TwoCharOps[i][2]).L
              op == Lit(<<TwoCharOps[i][1], TwoCharOps[i][2]>>)
          IN [L |-> l2, t |-> Fix(make(l2, TwoCharOps[i][3], op, 2, op))]
     ELSE IF c = "=" THEN [L |-> l1, t |-> Fix(make(l1, TOK_ASSIGN, Lit(<<"=">>), 1, Lit(<<"=">>)))]
     ELSE IF c = "+" \/ c = "-" \/ c = "*" \/ c = "/" \/ c = "%"
          THEN [L |-> l1, t |-> Fix(make(l1, TOK_OP_ARITH, s2, 1, s2))]
     ELSE IF c = "<" \/ c = ">"
          THEN [L |-> l1, t |-> Fix(make(l1, TOK_OP_REL, s2, 1, s2))]
     ELSE IF c = "!" THEN [L |-> l1, t |-> Fix(make(l1, TOK_OP_LOGIC, Lit(<<"!">>), 1, Lit(<<"!">>)))]
     ELSE [L |-> l1, t |-> make(l1, TOK_UNKNOWN, s2, 1, NULL)]

is_delim(c) == c = ";" \/ c = "," \/ c = ":" \/ c = "."
is_bracket(c) == c = "(" \/ c = ")" \/ c = "{" \/ c = "}" \/ c = "[" \/ c = "]"

\* returns the lexer (L), the token (t) and the keyword globals (G)
next_token(l0, g) ==
  LET l == skip_ws(l0)
      c == peek(l)
      a == advance(l)
      s2 == Ptr(<<a.c, NUL>>)
      R(r) == [L |-> r.L, t |-> r.t, G |-> g]
  IN IF c = EOF THEN [L |-> l, t |-> make(l, TOK_EOF, NULL, 0, NULL), G |-> g]
     ELSE IF is_delim(c) THEN [L |-> a.L, t |-> make(a.L, TOK_DELIM, s2, 1, s2), G |-> g]
     ELSE IF is_bracket(c) THEN [L |-> a.L, t |-> make(a.L, TOK_BRACKET, s2, 1, s2), G |-> g]
     ELSE IF isalpha(c) \/ c = "_" THEN scan_identifier_or_keyword(l, g)
     ELSE IF isdigit(c) THEN R(scan_number(l))
     ELSE IF c = "\"" THEN R(scan_string(l))
     ELSE IF c = "'" THEN R(scan_char(l))
     ELSE IF c = "/" THEN R(scan_slash_comment_or_op(l))
     ELSE IF c = "*" \/ c = "+" \/ c = "-" \/ c = "%" \/ c = "=" \/ c = "<" \/ c = ">"
             \/ c = "!" \/ c = "&" \/ c = "|"
          THEN R(scan_operator(l))
     ELSE [L |-> a.L, t |-> make(a.L, TOK_UNKNOWN, Ptr(<<c, NUL>>), 1, NULL), G |-> g]

(* ---------------- the token table written by the scanner ---------------- *)

tname(t) ==
  CASE t = TOK_IDENTIFIER    -> <<"i","d","e","n","t","i","f","i","e","r">>
    [] t = TOK_KEYWORD       -> <<"k","e","y","w","o","r","d">>
    [] t = TOK_RESERVED_TYPE -> <<"t","y","p","e">>
    [] t = TOK_CONST_INT     -> <<"c","o","n","s","t","_","i","n","t">>
    [] t = TOK_CONST_FLOAT   -> <<"c","o","n","s","t","_","f","l","o","a","t">>
    [] t = TOK_CONST_CHAR    -> <<"c","o","n","s","t","_","c","h","a","r">>
    [] t = TOK_CONST_STRING  -> <<"c","o","n","s","t","_","s","t","r","i","n","g">>
    [] t = TOK_CONST_BOOL    -> <<"c","o","n","s","t","_","b","o","o","l">>
    [] t = TOK_OP_ARITH      -> <<"o","p","e","r","a","t","o","r">>
    [] t = TOK_OP_REL        -> <<"o","p","e","r","a","t","o","r">>
    [] t = TOK_OP_LOGIC      -> <<"o","p","e","r","a","t","o","r">>
    [] t = TOK_ASSIGN        -> <<"o","p","e","r","a","t","o","r">>
    [] t = TOK_DELIM         -> <<"p","u","n","c","t","u","a","t","o","r">>
    [] t = TOK_BRACKET       -> <<"p","u","n","c","t","u","a","t","o","r">>
    [] t = TOK_COMMENT       -> <<"c","o","m","m","e","n","t">>
    [] t = TOK_NOISE         -> <<"n","o","i","s","e">>
    [] t = TOK_UNKNOWN       -> <<"u","n","k","n","o","w","n">>
    [] t = TOK_EOF           -> <<"e","o","f">>
    [] OTHER                 -> <<"?">>

\* n spaces
RECURSIVE Spaces(_)
Spaces(n) == IF n <= 0 THEN <<>> ELSE <<" ">> \o Spaces(n - 1)

\* printf's %-Ns: the string, padded on the right to at least width characters
PadRight(str, width) == str \o Spaces(width - Len(str))

Border == <<"+","-","-","-","-","-","-","-","-","-","-","-","-","-","-","-","-","-","-","-","-","-","-","+","-","-","-","-","-","-","-","-","-","-","-","-","-","-","-","-","-","-","+">>

\* fprintf(fp, "| %-20s | %-16s |\n", lex, tok) appended to the file fp
TableLine(fp, lex, tok) ==
  fp \o <<"|", " ">> \o PadRight(lex, 20) \o <<" ", "|", " ">> \o PadRight(tok, 16)
     \o <<" ", "|", "\n">>

\* the path main() scans when no argument is given
DefaultPath == <<"s","a","m","p","l","e",".","k","s","h">>

write_head(fp, src) ==
  TableLine(fp \o <<"S","o","u","r","c","e",":"," ">> \o src \o <<"\n">>
               \o Border \o <<"\n">>,
            <<"L","e","x","e","m","e">>, <<"T","o","k","e","n">>)
    \o Border \o <<"\n">>

write_row(fp, lex, tok) ==
  LET n == Len(lex) IN
  TableLine(fp, IF n > 20 THEN SubSeq(lex, 1, 19) \o <<".">> ELSE lex, tok)

write_foot(fp) == fp \o Border \o <<"\n">>

\* the text main() shows for a token: its extra when non-empty, else its lexeme
Shown(t) ==
  IF t.extra # NULL /\ Deref(t.extra) # <<>> THEN Deref(t.extra)
  ELSE IF t.lexeme # NULL THEN Deref(t.lexeme)
  ELSE <<>>

(* ---------------- syntax analyzer: limits and string helpers ---------------- *)

MAX_LEXEME == 128
\* The capacity of g_tokens.  The source sets 2000; the model scales it down so
\* that tables reaching and exceeding the capacity can be enumerated.
MAX_TOKENS == 40
MAX_LINE == 512

str_eq(a, b) == Len(a) = Len(b) /\ \A i \in 1..Len(a) : a[i] = b[i]

str_starts_with(s, prefix) ==
  Len(s) >= Len(prefix) /\ \A i \in 1..Len(prefix) : s[i] = prefix[i]

str_contains(s, sub) ==
  \/ sub = <<>>
  \/ \E i \in 1..Len(s) :
       i + Len(sub) - 1 <= Len(s) /\ \A j \in 1..Len(sub) : s[i + j - 1] = sub[j]

PT_KEYWORD    == "PT_KEYWORD"
PT_IDENTIFIER == "PT_IDENTIFIER"
PT_TYPE       == "PT_TYPE"
PT_INTCONST   == "PT_INTCONST"
PT_FLOATCONST == "PT_FLOATCONST"
PT_CHARCONST  == "PT_CHARCONST"
PT_BOOLCONST  == "PT_BOOLCONST"
PT_OPERATOR   == "PT_OPERATOR"
PT_SYMBOL     == "PT_SYMBOL"
PT_COMMENT    == "PT_COMMENT"
PT_NOISE      == "PT_NOISE"
PT_EOF        == "PT_EOF"
PT_UNKNOWN    == "PT_UNKNOWN"

\* isspace over the characters of the model
c_isspace(c) == c \in {" ", "\t", "\n", "\r", "\f"}

\* the length left after trim's right-hand loop
RECURSIVE trim_right(_)
trim_right(s) ==
  IF Len(s) > 0 /\ (s[Len(s)] = "\n" \/ s[Len(s)] = "\r" \/ c_isspace(s[Len(s)]))
  THEN trim_right(SubSeq(s, 1, Len(s) - 1))
  ELSE s

\* the index (from 0) of the first non-space character
RECURSIVE trim_start(_, _)
trim_start(s, start) ==
  IF start < Len(s) /\ c_isspace(s[start + 1]) THEN trim_start(s, start + 1) ELSE start

trim(s) ==
  LET r     == trim_right(s)
      start == trim_start(r, 0)
  IN IF start > 0 THEN SubSeq(r, start + 1, Len(r)) ELSE r

map_kind(kind) ==
  IF str_eq(kind, <<"k","e","y","w","o","r","d">>) THEN PT_KEYWORD
  ELSE IF str_eq(kind, <<"i","d","e","n","t","i","f","i","e","r">>) THEN PT_IDENTIFIER
  ELSE IF str_eq(kind, <<"t","y","p","e">>) THEN PT_TYPE
  ELSE IF str_eq(kind, <<"c","o","n","s","t","_","i","n","t">>) THEN PT_INTCONST
  ELSE IF str_eq(kind, <<"c","o","n","s","t","_","f","l","o","a","t">>) THEN PT_FLOATCONST
  ELSE IF str_eq(kind, <<"c","o","n","s","t","_","c","h","a","r">>) THEN PT_CHARCONST
  ELSE IF str_eq(kind, <<"c","o","n","s","t","_","b","o","o","l">>) THEN PT_BOOLCONST
  ELSE IF str_eq(kind, <<"o","p","e","r","a","t","o","r">>) THEN PT_OPERATOR
  ELSE IF str_eq(kind, <<"p","u","n","c","t","u","a","t","o","r">>) THEN PT_SYMBOL
  ELSE IF str_eq(kind, <<"c","o","m","m","e","n","t">>) THEN PT_COMMENT
  ELSE IF str_eq(kind, <<"n","o","i","s","e">>) THEN PT_NOISE
  ELSE IF str_eq(kind, <<"e","o","f">>) THEN PT_EOF
  ELSE PT_UNKNOWN

\* fgets(line, MAX_LINE, fp) on the file content from offset off: NULL at the
\* end of the file, else the line read (through its newline, at most
\* MAX_LINE - 1 characters) and the offset after it
fgets(file, off) ==
  IF off >= Len(file) THEN NULL
  ELSE LET limit == IF Len(file) - off < MAX_LINE - 1 THEN Len(file) - off ELSE MAX_LINE - 1
           n     == IF \E k \in 1..limit : file[off + k] = "\n"
                    THEN CHOOSE k \in 1..limit :
                           file[off + k] = "\n" /\ \A j \in 1..(k-1) : file[off + j] # "\n"
                    ELSE limit
       IN Ptr([line |-> SubSeq(file, off + 1, off + n), off |-> off + n])

\* scanf's white-space directive: the index (from 1) of the first character at
\* or after i that is not white space
RECURSIVE skip_space(_, _)
skip_space(s, i) == IF i <= Len(s) /\ c_isspace(s[i]) THEN skip_space(s, i + 1) ELSE i

\* scanf's %127[^|]: the index after the longest run of at most 127 characters
\* other than '|' that starts at i
RECURSIVE scan_set(_, _, _)
scan_set(s, i, taken) ==
  IF i <= Len(s) /\ s[i] # "|" /\ taken < 127 THEN scan_set(s, i + 1, taken + 1) ELSE i

\* sscanf(line, "| %127[^|]| %127[^|]|", rawLex, rawKind): the number of
\* conversions made (n) and the two buffers, which start zeroed
sscanf_row(line) ==
  LET none == [n |-> 0, rawLex |-> <<>>, rawKind |-> <<>>] IN
  IF Len(line) < 1 \/ line[1] # "|" THEN none
  ELSE LET a1 == skip_space(line, 2)
           a2 == scan_set(line, a1, 0)
       IN IF a2 = a1 THEN none
          ELSE LET lex == SubSeq(line, a1, a2 - 1)
                   one == [n |-> 1, rawLex |-> lex, rawKind |-> <<>>]
               IN IF a2 > Len(line) \/ line[a2] # "|" THEN one
                  ELSE LET b1 == skip_space(line, a2 + 1)
                           b2 == scan_set(line, b1, 0)
                       IN IF b2 = b1 THEN one
                          ELSE [n |-> 2, rawLex |-> lex, rawKind |-> SubSeq(line, b1, b2 - 1)]

\* The data row a line of the table holds: NULL for a line the loader skips,
\* else the parser token built from it.
load_row(rawline) ==
  LET line == trim(rawline) IN
  IF line = <<>> THEN NULL
  ELSE IF str_starts_with(line, <<"S","o","u","r","c","e",":">>) THEN NULL
  ELSE IF line[1] = "+" \/ line[1] = "-" THEN NULL
  ELSE IF str_contains(line, <<"L","e","x","e","m","e">>)
          /\ str_contains(line, <<"T","o","k","e","n">>) THEN NULL
  ELSE IF line[1] # "|" THEN NULL
  ELSE LET r == sscanf_row(line) IN
       IF r.n # 2 THEN NULL
       ELSE LET rawLex  == trim(r.rawLex)
                rawKind == trim(r.rawKind)
                n       == IF Len(rawLex) < MAX_LEXEME - 1 THEN Len(rawLex) ELSE MAX_LEXEME - 1
            IN Ptr([kind |-> map_kind(rawKind), lexeme |-> SubSeq(rawLex, 1, n)])

(* ---------------- character classifier (charclass.c) ---------------- *)

\* the value of a character literal of charclass.c as an int
Code(ch) ==
  CASE ch = "!" -> 33 [] ch = "%" -> 37 [] ch = "&" -> 38 [] ch = "*" -> 42
    [] ch = "+" -> 43 [] ch = "-" -> 45 [] ch = "/" -> 47 [] ch = "<" -> 60
    [] ch = "=" -> 61 [] ch = ">" -> 62 [] ch = "|" -> 124

\* the value of the eleventh character literal of is_operator_char's switch,
\* the grave accent
GraveAccent == 96

\* the switch of is_operator_char over its int argument
is_operator_char(c) ==
  IF c \in {Code("+"), Code("-"), Code("*"), Code("/"),
            Code("%"), Code("="), Code("<"), Code(">"),
            Code("!"), Code("&"), GraveAccent}
  THEN 1
  ELSE 0

(* ---------------- cursor over a stream (modular scanner) ---------------- *)

\* the Lexer over a FILE*: input is the file's content and at the number of
\* characters fgetc has delivered; the first character is read ahead into
\* current_char, which is what peek() reports
NewStream(text) ==
  [input        |-> text,
   at           |-> IF text = <<>> THEN 0 ELSE 1,
   current_char |-> IF text = <<>> THEN EOF ELSE text[1],
   line         |-> 1,
   column       |-> 1]

\* fgetc(L->input): the next character of the file, or EOF at its end
fgetc(S) ==
  IF S.at < Len(S.input)
  THEN [S |-> [S EXCEPT !.at = @ + 1], c |-> S.input[S.at + 1]]
  ELSE [S |-> S, c |-> EOF]

stream_peek(S) == S.current_char

\* faulty variant of the stream's advance: a newline puts the column at 0
stream_advance_column_zero(S) ==
  LET current == S.current_char IN
  IF current = EOF
  THEN [L |-> S, c |-> EOF]
  ELSE LET S1 == IF current = "\n"
                 THEN [S EXCEPT !.line = @ + 1, !.column = 0]
                 ELSE [S EXCEPT !.column = @ + 1]
           g  == fgetc(S1)
       IN [L |-> [g.S EXCEPT !.current_char = g.c], c |-> current]

stream_advance(S) ==
  LET current == S.current_char IN
  IF current = EOF
  THEN [L |-> S, c |-> EOF]
  ELSE LET S1 == IF current = "\n"
                 THEN [S EXCEPT !.line = @ + 1, !.column = 1]
                 ELSE [S EXCEPT !.column = @ + 1]
           g  == fgetc(S1)
       IN [L |-> [g.S EXCEPT !.current_char = g.c], c |-> current]

\* faulty variant of the stream's match: consumes the character also when it
\* is not the expected one
stream_match_always_advances(S, expected) ==
  [L |-> stream_advance(S).L, r |-> IF S.current_char = expected THEN 1 ELSE 0]

stream_match(S, expected) ==
  IF S.current_char = expected
  THEN [L |-> stream_advance(S).L, r |-> 1]
  ELSE [L |-> S, r |-> 0]

RECURSIVE stream_skip_ws(_)
stream_skip_ws(S) ==
  IF S.current_char = " " \/ S.current_char = "\t" \/
     S.current_char = "\n" \/ S.current_char = "\r"
  THEN stream_skip_ws(stream_advance(S).L)
  ELSE S

(* ---------------- state ---------------- *)

VARIABLES
  pc,            \* where the run stands: "lex", "lexed", "load", "parse", "done", ...
  L,             \* the scanner's Lexer
  kw_dfa,        \* the keyword trie
  kw_dfa_built,  \* its build-once flag
  out,           \* the content of SymbolTable.txt
  emitted,       \* history: the tokens next_token returned, with the cursor
                 \* before (after the white space) and after each
  kw_res,        \* the last is_keyword call: NULL or Ptr([s, n, r])
  fpos,          \* the loader's read offset in SymbolTable.txt
  g_tokens,      \* the used entries of the token array, in order
  beyond,        \* what the memory just past g_tokens reads as a ParserToken
  g_tok_count,
  g_tok_index,
  g_error,
  g_indent,
  stack,         \* the parser's call stack: frames [proc, pc]
  trace,         \* stdout: the parse-tree events printed so far
  errlog,        \* stderr: the syntax errors reported so far
  verdict,       \* main()'s final message: "none" until printed
  lastStore,     \* history: the highest index stored into g_tokens (-1: none)
  synthEof,      \* history: the loader appended its own end-of-file token
  map_res,       \* the last map_kind call: NULL or Ptr([label, kind])
  dropped,       \* history: the data rows the loader read and did not store
  cls_res,       \* the last character classifier call: NULL or Ptr([f, c, r])
  SL,            \* the Lexer of the modular scanner, over a stream
  cur_res,       \* the last cursor call: NULL or Ptr([op, expected, L0, S0, r, rs])
  words,         \* history: the words handed to dfa_add_symbol, in order
  lastErrIdx     \* history: g_tok_index at the latest syntax_error (-1: none)

unitVars == <<cls_res, SL, cur_res, words>>
scanVars == <<L, kw_dfa, kw_dfa_built, emitted, kw_res, unitVars>>
loadVars == <<fpos, g_tokens, beyond, g_tok_count, lastStore, synthEof, map_res, dropped>>
parseVars == <<g_tok_index, g_error, g_indent, stack, trace, errlog, verdict, lastErrIdx>>
vars == <<pc, out, scanVars, loadVars, parseVars>>

\* the syntax analyzer's globals before its main() runs
SyntaxIdle ==
  /\ fpos = 0
  /\ g_tokens = <<>>
  /\ beyond = [kind |-> PT_KEYWORD, lexeme |-> <<>>]
  /\ g_tok_count = 0
  /\ g_tok_index = 0
  /\ g_error = 0
  /\ g_indent = 0
  /\ stack = <<>>
  /\ trace = <<>>
  /\ errlog = <<>>
  /\ verdict = "none"
  /\ lastStore = -1
  /\ synthEof = FALSE
  /\ map_res = NULL
  /\ dropped = 0
  /\ lastErrIdx = -1

(* ---------------- syntax analyzer: token cursor, tags, errors ---------------- *)

\* g_tokens[i] as the parser reads it (i from 0); the entry one past the
\* array is whatever the memory there holds
Tok(i) == IF i < Len(g_tokens) THEN g_tokens[i + 1] ELSE beyond

\* The parser's registers: the globals a parsing step reads and writes,
\* with the two output streams.
Reg ==
  [idx    |-> g_tok_index,
   err    |-> g_error,
   indent |-> g_indent,
   trace  |-> trace,
   errlog |-> errlog,
   errIdx |-> lastErrIdx]

cur_tok(r) == IF r.idx >= g_tok_count THEN Tok(g_tok_count - 1) ELSE Tok(r.idx)

\* faulty variant of next_tok: moves on also from the last token
next_tok_unbounded(r) == [r EXCEPT !.idx = @ + 1]

next_tok(r) == IF r.idx < g_tok_count - 1 THEN [r EXCEPT !.idx = @ + 1] ELSE r

open_tag(r, name) ==
  [r EXCEPT !.trace = Append(@, <<"open", name, r.indent>>), !.indent = @ + 1]

close_tag(r, name) ==
  [r EXCEPT !.indent = @ - 1, !.trace = Append(@, <<"close", name, r.indent - 1>>)]

leaf_tag(r, name, text) ==
  [r EXCEPT !.trace = Append(@, <<"leaf", name, r.indent, text>>)]

\* faulty variant of syntax_error: the message is printed, the flag not set
syntax_error_flag_lost(r, msg) ==
  LET t == cur_tok(r) IN
  [r EXCEPT !.errlog = Append(@, [msg  |-> msg,
                                  near |-> IF t.lexeme # <<>> THEN t.lexeme
                                           ELSE <<"(","E","O","F",")">>]),
            !.errIdx = r.idx]

syntax_error(r, msg) ==
  LET t == cur_tok(r) IN
  [r EXCEPT !.errlog = Append(@, [msg  |-> msg,
                                  near |-> IF t.lexeme # <<>> THEN t.lexeme
                                           ELSE <<"(","E","O","F",")">>]),
            !.err = 1,
            !.errIdx = r.idx]

\* cur_tok() is the symbol sym
IsSymbol(r, sym) == cur_tok(r).kind = PT_SYMBOL /\ str_eq(cur_tok(r).lexeme, sym)

\* cur_tok() is a keyword spelled kw
IsKeyword(r, kw) == cur_tok(r).kind = PT_KEYWORD /\ str_eq(cur_tok(r).lexeme, kw)

\* cur_tok() is an operator that is one of ops
IsOperator(r, ops) ==
  cur_tok(r).kind = PT_OPERATOR /\ \E o \in ops : str_eq(cur_tok(r).lexeme, o)

accept_symbol(r, sym) ==
  IF IsSymbol(r, sym)
  THEN [r |-> next_tok(leaf_tag(r, "symbol", cur_tok(r).lexeme)), ok |-> TRUE]
  ELSE [r |-> r, ok |-> FALSE]

\* faulty variant of is_relop: the one-character operators are left out
is_relop_two_chars(op) ==
  \/ str_eq(op, <<"=","=">>)
  \/ str_eq(op, <<"!","=">>)
  \/ str_eq(op, <<"<","=">>)
  \/ str_eq(op, <<">","=">>)

is_relop(op) ==
  \/ str_eq(op, <<"=","=">>)
  \/ str_eq(op, <<"!","=">>)
  \/ str_eq(op, <<"<">>)
  \/ str_eq(op, <<"<","=">>)
  \/ str_eq(op, <<">">>)
  \/ str_eq(op, <<">","=">>)

(* ---------------- syntax analyzer: control ---------------- *)

Top == stack[Len(stack)]

\* control stands in procedure p at program point l
At(p, l) == pc = "parse" /\ stack # <<>> /\ Top.proc = p /\ Top.pc = l

\* the stack after moving to program point l of the running procedure
Goto(l) == [stack EXCEPT ![Len(stack)].pc = l]

\* the stack after calling p, to resume at program point l
Call(p, l) == Append(Goto(l), [proc |-> p, pc |-> "begin"])

\* the stack after returning to the caller
Return == SubSeq(stack, 1, Len(stack) - 1)

\* one parsing step: the registers become r and the stack becomes st
Commit(r, st) ==
  \E q \in {r} :
    /\ g_tok_index' = q.idx
    /\ g_error' = q.err
    /\ g_indent' = q.indent
    /\ trace' = q.trace
    /\ errlog' = q.errlog
    /\ lastErrIdx' = q.errIdx
    /\ stack' = st
    /\ UNCHANGED <<pc, out, scanVars, loadVars, verdict>>

\* faulty variant of expect_symbol: the error is reported without recovery
expect_symbol_no_recovery(r, sym, errmsg, l) ==
  LET a == accept_symbol(r, sym) IN
  IF a.ok THEN Commit(a.r, Goto(l))
  ELSE Commit(syntax_error(r, errmsg), Goto(l))

\* expect_symbol(sym, errmsg), then on to program point l
expect_symbol(r, sym, errmsg, l) ==
  LET a == accept_symbol(r, sym) IN
  IF a.ok THEN Commit(a.r, Goto(l))
  ELSE Commit(syntax_error(r, errmsg), Call("panic_recover", l))

\* faulty variant of panic_recover: the boundary symbol is left unconsumed
panic_recover_keep_boundary ==
  /\ At("panic_recover", "begin")
  /\ IF cur_tok(Reg).kind = PT_EOF THEN Commit(Reg, Return)
     ELSE IF IsSymbol(Reg, <<";">>) \/ IsSymbol(Reg, <<"}">>)
          THEN Commit(Reg, Return)
          ELSE Commit(next_tok(Reg), stack)

\* one turn of panic_recover's loop
panic_recover ==
  /\ At("panic_recover", "begin")
  /\ IF cur_tok(Reg).kind = PT_EOF THEN Commit(Reg, Return)
     ELSE IF IsSymbol(Reg, <<";">>) \/ IsSymbol(Reg, <<"}">>)
          THEN Commit(next_tok(Reg), Return)
          ELSE Commit(next_tok(Reg), stack)

(* ---------------- syntax analyzer: statements ---------------- *)

parse_program ==
  \/ /\ At("parse_program", "begin")
     /\ Commit(open_tag(Reg, "program"), Call("parse_stmt_list", "close"))
  \/ /\ At("parse_program", "close")
     /\ Commit(close_tag(Reg, "program"), Return)

\* faulty variant of parse_stmt_list: the loop is left at the first error
parse_stmt_list_stops_on_error ==
  /\ At("parse_stmt_list", "begin")
  /\ IF cur_tok(Reg).kind # PT_EOF /\ g_error = 0
     THEN Commit(Reg, Call("parse_statement", "begin"))
     ELSE Commit(Reg, Return)

parse_stmt_list ==
  /\ At("parse_stmt_list", "begin")
  /\ IF cur_tok(Reg).kind # PT_EOF
     THEN Commit(Reg, Call("parse_statement", "begin"))
     ELSE Commit(Reg, Return)

parse_statement ==
  \/ /\ At("parse_statement", "begin")
     /\ LET t == cur_tok(Reg) IN
        IF t.kind = PT_TYPE THEN Commit(Reg, Call("parse_decl_stmt", "return"))
        ELSE IF IsKeyword(Reg, <<"i","n","p","u","t">>)
          THEN Commit(Reg, Call("parse_input_stmt", "return"))
        ELSE IF IsKeyword(Reg, <<"p","r","i","n","t">>)
                \/ IsKeyword(Reg, <<"w","r","i","t","e","l","n">>)
          THEN Commit(Reg, Call("parse_print_stmt", "return"))
        ELSE IF IsKeyword(Reg, <<"i","f">>)
          THEN Commit(Reg, Call("parse_if_stmt", "return"))
        ELSE IF IsKeyword(Reg, <<"w","h","i","l","e">>)
          THEN Commit(Reg, Call("parse_while_stmt", "return"))
        ELSE IF IsKeyword(Reg, <<"f","o","r">>)
          THEN Commit(Reg, Call("parse_for_stmt", "return"))
        ELSE IF t.kind = PT_IDENTIFIER
          THEN Commit(Reg, Call("parse_assign_stmt", "return"))
        ELSE Commit(syntax_error(Reg, "Unexpected token at start of statement"),
                    Call("panic_recover", "return"))
  \/ /\ At("parse_statement", "return")
     /\ Commit(Reg, Return)

\* the identifier step shared by declarations, input and assignments: a leaf
\* and a move on an identifier, else the error msg without recovery
IdentifierOrError(r, msg) ==
  IF cur_tok(r).kind = PT_IDENTIFIER
  THEN next_tok(leaf_tag(r, "identifier", cur_tok(r).lexeme))
  ELSE syntax_error(r, msg)

\* the '=' step of an assignment
AssignOpOrError(r, msg) ==
  IF IsOperator(r, {<<"=">>})
  THEN next_tok(leaf_tag(r, "symbol", <<"=">>))
  ELSE syntax_error(r, msg)

parse_decl_stmt ==
  \/ /\ At("parse_decl_stmt", "begin")
     /\ LET r1 == open_tag(Reg, "declStatement")
            r2 == next_tok(leaf_tag(r1, "type", cur_tok(r1).lexeme))
            r3 == IdentifierOrError(r2, "Expected identifier after type")
        IN expect_symbol(r3, <<";">>, "Missing ';' after declaration", "close")
  \/ /\ At("parse_decl_stmt", "close")
     /\ Commit(close_tag(Reg, "declStatement"), Return)

parse_input_stmt ==
  \/ /\ At("parse_input_stmt", "begin")
     /\ LET r1 == open_tag(Reg, "inputStatement")
            r2 == next_tok(leaf_tag(r1, "keyword", cur_tok(r1).lexeme))
            r3 == IdentifierOrError(r2, "Expected identifier after 'input'")
        IN expect_symbol(r3, <<";">>, "Missing ';' after input statement", "close")
  \/ /\ At("parse_input_stmt", "close")
     /\ Commit(close_tag(Reg, "inputStatement"), Return)

parse_print_stmt ==
  \/ /\ At("parse_print_stmt", "begin")
     /\ LET r1 == open_tag(Reg, "printStatement")
            r2 == next_tok(leaf_tag(r1, "keyword", cur_tok(r1).lexeme))
        IN Commit(open_tag(r2, "expression"), Call("parse_expression", "expr_done"))
  \/ /\ At("parse_print_stmt", "expr_done")
     /\ expect_symbol(close_tag(Reg, "expression"), <<";">>,
                      "Missing ';' after print statement", "close")
  \/ /\ At("parse_print_stmt", "close")
     /\ Commit(close_tag(Reg, "printStatement"), Return)

parse_assign_stmt ==
  \/ /\ At("parse_assign_stmt", "begin")
     /\ LET r1 == open_tag(Reg, "assignStatement")
            r2 == IdentifierOrError(r1, "Expected identifier at start of assignment")
            r3 == AssignOpOrError(r2, "Expected '=' in assignment")
        IN Commit(open_tag(r3, "expression"), Call("parse_expression", "expr_done"))
  \/ /\ At("parse_assign_stmt", "expr_done")
     /\ expect_symbol(close_tag(Reg, "expression"), <<";">>,
                      "Missing ';' after assignment", "close")
  \/ /\ At("parse_assign_stmt", "close")
     /\ Commit(close_tag(Reg, "assignStatement"), Return)

\* faulty variant of parse_assign_no_semicolon: the early return on a missing
\* identifier leaves the assignUpdate tag open
parse_assign_no_semicolon_unclosed ==
  \/ /\ At("parse_assign_no_semicolon", "begin")
     /\ LET r1 == open_tag(Reg, "assignUpdate")
            r2 == IdentifierOrError(r1, "Expected identifier in for-update")
            r3 == AssignOpOrError(r2, "Expected '=' in for-update")
        IN IF cur_tok(r1).kind # PT_IDENTIFIER
           THEN Commit(r2, Return)
           ELSE IF ~IsOperator(r2, {<<"=">>})
           THEN Commit(close_tag(r3, "assignUpdate"), Return)
           ELSE Commit(open_tag(r3, "expression"), Call("parse_expression", "expr_done"))
  \/ /\ At("parse_assign_no_semicolon", "expr_done")
     /\ Commit(close_tag(close_tag(Reg, "expression"), "assignUpdate"), Return)

parse_assign_no_semicolon ==
  \/ /\ At("parse_assign_no_semicolon", "begin")
     /\ LET r1 == open_tag(Reg, "assignUpdate")
            r2 == IdentifierOrError(r1, "Expected identifier in for-update")
            r3 == AssignOpOrError(r2, "Expected '=' in for-update")
        IN IF cur_tok(r1).kind # PT_IDENTIFIER
           THEN Commit(close_tag(r2, "assignUpdate"), Return)
           ELSE IF ~IsOperator(r2, {<<"=">>})
           THEN Commit(close_tag(r3, "assignUpdate"), Return)
           ELSE Commit(open_tag(r3, "expression"), Call("parse_expression", "expr_done"))
  \/ /\ At("parse_assign_no_semicolon", "expr_done")
     /\ Commit(close_tag(close_tag(Reg, "expression"), "assignUpdate"), Return)

parse_block ==
  \/ /\ At("parse_block", "begin")
     /\ IF IsSymbol(Reg, <<"{">>)
        THEN Commit(open_tag(next_tok(leaf_tag(Reg, "symbol", <<"{">>)), "statements"),
                    Goto("loop"))
        ELSE Commit(Reg, Call("parse_statement", "return"))
  \/ /\ At("parse_block", "loop")
     /\ IF cur_tok(Reg).kind # PT_EOF /\ ~IsSymbol(Reg, <<"}">>)
        THEN Commit(Reg, Call("parse_statement", "loop"))
        ELSE expect_symbol(close_tag(Reg, "statements"), <<"}">>,
                           "Missing '}' at end of block", "return")
  \/ /\ At("parse_block", "return")
     /\ Commit(Reg, Return)

\* faulty variant of parse_if_stmt: the optional else part is never taken
parse_if_stmt_without_else ==
  \/ /\ At("parse_if_stmt", "begin")
     /\ LET r1 == open_tag(Reg, "ifStatement")
            r2 == next_tok(leaf_tag(r1, "keyword", cur_tok(r1).lexeme))
        IN expect_symbol(r2, <<"(">>, "Expected '(' after 'if'", "cond")
  \/ /\ At("parse_if_stmt", "cond")
     /\ Commit(open_tag(Reg, "expression"), Call("parse_expression", "cond_done"))
  \/ /\ At("parse_if_stmt", "cond_done")
     /\ expect_symbol(close_tag(Reg, "expression"), <<")">>,
                      "Expected ')' after condition", "then")
  \/ /\ At("parse_if_stmt", "then")
     /\ Commit(Reg, Call("parse_block", "else"))
  \/ /\ At("parse_if_stmt", "else")
     /\ Commit(close_tag(Reg, "ifStatement"), Return)

parse_if_stmt ==
  \/ /\ At("parse_if_stmt", "begin")
     /\ LET r1 == open_tag(Reg, "ifStatement")
            r2 == next_tok(leaf_tag(r1, "keyword", cur_tok(r1).lexeme))
        IN expect_symbol(r2, <<"(">>, "Expected '(' after 'if'", "cond")
  \/ /\ At("parse_if_stmt", "cond")
     /\ Commit(open_tag(Reg, "expression"), Call("parse_expression", "cond_done"))
  \/ /\ At("parse_if_stmt", "cond_done")
     /\ expect_symbol(close_tag(Reg, "expression"), <<")">>,
                      "Expected ')' after condition", "then")
  \/ /\ At("parse_if_stmt", "then")
     /\ Commit(Reg, Call("parse_block", "else"))
  \/ /\ At("parse_if_stmt", "else")
     /\ IF IsKeyword(Reg, <<"e","l","s","e">>)
        THEN Commit(next_tok(leaf_tag(Reg, "keyword", <<"e","l","s","e">>)),
                    Call("parse_block", "close"))
        ELSE Commit(close_tag(Reg, "ifStatement"), Return)
  \/ /\ At("parse_if_stmt", "close")
     /\ Commit(close_tag(Reg, "ifStatement"), Return)

parse_while_stmt ==
  \/ /\ At("parse_while_stmt", "begin")
     /\ LET r1 == open_tag(Reg, "whileStatement")
            r2 == next_tok(leaf_tag(r1, "keyword", cur_tok(r1).lexeme))
        IN expect_symbol(r2, <<"(">>, "Expected '(' after 'while'", "cond")
  \/ /\ At("parse_while_stmt", "cond")
     /\ Commit(open_tag(Reg, "expression"), Call("parse_expression", "cond_done"))
  \/ /\ At("parse_while_stmt", "cond_done")
     /\ expect_symbol(close_tag(Reg, "expression"), <<")">>,
                      "Expected ')' after while condition", "body")
  \/ /\ At("parse_while_stmt", "body")
     /\ Commit(Reg, Call("parse_block", "close"))
  \/ /\ At("parse_while_stmt", "close")
     /\ Commit(close_tag(Reg, "whileStatement"), Return)

parse_for_stmt ==
  \/ /\ At("parse_for_stmt", "begin")
     /\ LET r1 == open_tag(Reg, "forStatement")
            r2 == next_tok(leaf_tag(r1, "keyword", cur_tok(r1).lexeme))
        IN expect_symbol(r2, <<"(">>, "Expected '(' after 'for'", "init")
  \/ /\ At("parse_for_stmt", "init")
     /\ Commit(open_tag(Reg, "forInit"), Call("parse_assign_stmt", "init_done"))
  \/ /\ At("parse_for_stmt", "init_done")
     /\ Commit(open_tag(close_tag(Reg, "forInit"), "forCondition"),
               Call("parse_expression", "cond_done"))
  \/ /\ At("parse_for_stmt", "cond_done")
     /\ expect_symbol(close_tag(Reg, "forCondition"), <<";">>,
                      "Missing ';' in for condition", "update")
  \/ /\ At("parse_for_stmt", "update")
     /\ Commit(open_tag(Reg, "forUpdate"), Call("parse_assign_no_semicolon", "update_done"))
  \/ /\ At("parse_for_stmt", "update_done")
     /\ expect_symbol(close_tag(Reg, "forUpdate"), <<")">>,
                      "Expected ')' after for header", "body")
  \/ /\ At("parse_for_stmt", "body")
     /\ Commit(Reg, Call("parse_block", "close"))
  \/ /\ At("parse_for_stmt", "close")
     /\ Commit(close_tag(Reg, "forStatement"), Return)

(* ---------------- syntax analyzer: expressions ---------------- *)

parse_expression ==
  \/ /\ At("parse_expression", "begin")
     /\ Commit(open_tag(Reg, "relExpression"), Call("parse_simple_expr", "relop"))
  \/ /\ At("parse_expression", "relop")
     /\ IF cur_tok(Reg).kind = PT_OPERATOR /\ is_relop(cur_tok(Reg).lexeme)
        THEN Commit(next_tok(leaf_tag(Reg, "symbol", cur_tok(Reg).lexeme)),
                    Call("parse_simple_expr", "close"))
        ELSE Commit(close_tag(Reg, "relExpression"), Return)
  \/ /\ At("parse_expression", "close")
     /\ Commit(close_tag(Reg, "relExpression"), Return)

parse_simple_expr ==
  \/ /\ At("parse_simple_expr", "begin")
     /\ Commit(open_tag(Reg, "simpleExpression"), Call("parse_term", "loop"))
  \/ /\ At("parse_simple_expr", "loop")
     /\ IF IsOperator(Reg, {<<"+">>, <<"-">>, <<"|","|">>})
        THEN Commit(next_tok(leaf_tag(Reg, "symbol", cur_tok(Reg).lexeme)),
                    Call("parse_term", "loop"))
        ELSE Commit(close_tag(Reg, "simpleExpression"), Return)

parse_term ==
  \/ /\ At("parse_term", "begin")
     /\ Commit(open_tag(Reg, "term"), Call("parse_factor", "loop"))
  \/ /\ At("parse_term", "loop")
     /\ IF IsOperator(Reg, {<<"*">>, <<"/">>, <<"%">>, <<"&","&">>})
        THEN Commit(next_tok(leaf_tag(Reg, "symbol", cur_tok(Reg).lexeme)),
                    Call("parse_factor", "loop"))
        ELSE Commit(close_tag(Reg, "term"), Return)

parse_factor ==
  \/ /\ At("parse_factor", "begin")
     /\ LET t == cur_tok(Reg) IN
        IF IsSymbol(Reg, <<"(">>)
        THEN Commit(open_tag(next_tok(leaf_tag(Reg, "symbol", <<"(">>)), "expression"),
                    Call("parse_expression", "paren_done"))
        ELSE IF t.kind = PT_IDENTIFIER
        THEN Commit(next_tok(leaf_tag(Reg, "identifier", t.lexeme)), Return)
        ELSE IF t.kind \in {PT_INTCONST, PT_FLOATCONST, PT_CHARCONST, PT_BOOLCONST}
        THEN Commit(next_tok(leaf_tag(Reg, "literal", t.lexeme)), Return)
        ELSE Commit(syntax_error(Reg, "Expected identifier, literal, or '(' in expression"),
                    Call("panic_recover", "return"))
  \/ /\ At("parse_factor", "paren_done")
     /\ LET r1 == close_tag(Reg, "expression") IN
        IF IsSymbol(r1, <<")">>)
        THEN Commit(next_tok(leaf_tag(r1, "symbol", <<")">>)), Return)
        ELSE Commit(syntax_error(r1, "Missing ')' after grouped expression"), Return)
  \/ /\ At("parse_factor", "return")
     /\ Commit(Reg, Return)

(* ---------------- syntax analyzer: loader steps and main ---------------- *)

\* One turn of the loader's while loop: read a line, skip it or store its
\* token if there is room.
LoadLine ==
  /\ pc = "load"
  /\ \E got \in {fgets(out, fpos)} :
       /\ got # NULL
       /\ \E row \in {load_row(Deref(got).line)} :
            /\ fpos' = Deref(got).off
            /\ IF row # NULL /\ g_tok_count < MAX_TOKENS
               THEN /\ g_tokens' = Append(g_tokens, Deref(row))
                    /\ g_tok_count' = g_tok_count + 1
                    /\ lastStore' = g_tok_count
                    /\ UNCHANGED dropped
               ELSE /\ UNCHANGED <<g_tokens, g_tok_count, lastStore>>
                    /\ dropped' = IF row # NULL THEN dropped + 1 ELSE dropped
  /\ UNCHANGED <<pc, out, scanVars, beyond, synthEof, map_res, parseVars>>

EofToken == [kind |-> PT_EOF, lexeme |-> <<"E","O","F">>]

\* the last loaded token is missing or is not the end-of-file token
NeedsEof == IF g_tok_count = 0 THEN TRUE ELSE Tok(g_tok_count - 1).kind # PT_EOF

\* main() after a load that returned a count above zero: reset the parser's
\* globals and enter parse_program
StartParse ==
  /\ pc' = "parse"
  /\ g_tok_index' = 0
  /\ g_error' = 0
  /\ g_indent' = 0
  /\ stack' = <<[proc |-> "parse_program", pc |-> "begin"]>>
  /\ UNCHANGED <<trace, errlog, verdict, lastErrIdx>>

\* The end of the file: the loop ends, and the synthetic end-of-file token is
\* appended when it is needed.  With the array full the append writes one
\* entry past g_tokens: the write may land in memory that later reads back as
\* written, may be overwritten there, or may stop the process.
LoadEnd ==
  /\ pc = "load"
  /\ fgets(out, fpos) = NULL
  /\ \/ /\ ~NeedsEof
        /\ UNCHANGED <<g_tokens, g_tok_count, lastStore, beyond, synthEof>>
        /\ StartParse
     \/ /\ NeedsEof
        /\ g_tok_count < MAX_TOKENS
        /\ g_tokens' = Append(g_tokens, EofToken)
        /\ g_tok_count' = g_tok_count + 1
        /\ lastStore' = g_tok_count
        /\ synthEof' = TRUE
        /\ UNCHANGED beyond
        /\ StartParse
     \/ /\ NeedsEof
        /\ g_tok_count >= MAX_TOKENS
        /\ lastStore' = g_tok_count
        /\ synthEof' = TRUE
        /\ g_tok_count' = g_tok_count + 1
        /\ UNCHANGED g_tokens
        /\ \/ beyond' = EofToken /\ StartParse
           \/ beyond' = [kind |-> PT_UNKNOWN, lexeme |-> <<>>] /\ StartParse
           \/ /\ pc' = "crashed"
              /\ UNCHANGED <<beyond, parseVars>>
  /\ UNCHANGED <<out, scanVars, fpos, map_res, dropped>>

\* main() after parse_program returns: the trailing-input check and the verdict
SyntaxMainEnd ==
  /\ pc = "parse"
  /\ stack = <<>>
  /\ LET r == IF cur_tok(Reg).kind # PT_EOF
              THEN syntax_error(Reg, "Unexpected extra code after program")
              ELSE Reg
     IN /\ g_error' = r.err
        /\ errlog' = r.errlog
        /\ lastErrIdx' = r.errIdx
        /\ verdict' = IF r.err # 0 THEN "Program has syntax errors"
                      ELSE "Program is syntactically correct"
  /\ pc' = "done"
  /\ UNCHANGED <<out, scanVars, loadVars, g_tok_index, g_indent, stack, trace>>

Parse ==
  \/ parse_program
  \/ parse_stmt_list
  \/ parse_statement
  \/ parse_decl_stmt
  \/ parse_input_stmt
  \/ parse_print_stmt
  \/ parse_assign_stmt
  \/ parse_assign_no_semicolon
  \/ parse_block
  \/ parse_if_stmt
  \/ parse_while_stmt
  \/ parse_for_stmt
  \/ parse_expression
  \/ parse_simple_expr
  \/ parse_term
  \/ parse_factor
  \/ panic_recover

(* ---------------- source texts ---------------- *)

ScanAlphabet ==
  {"a", "1", ".", "\"", "'", "/", "*", "=", "<", "&", "|", " ", "\n", ";"}

\* all texts over alphabet of length at most n
RECURSIVE Texts(_, _)
Texts(alphabet, n) ==
  IF n = 0 THEN {<<>>}
  ELSE LET shorter == Texts(alphabet, n - 1) IN
       shorter \cup { Append(t, c) : t \in { u \in shorter : Len(u) = n - 1 }, c \in alphabet }

Sources == Texts(ScanAlphabet, MaxSrcLen)

(* ---------------- the scanner's main ---------------- *)

Cursor(l) == [pos |-> l.pos, line |-> l.line, col |-> l.col]

\* both programs before their main() runs; no file has been read
Idle ==
  /\ pc = "start"
  /\ L = NewLexer(<<>>)
  /\ kw_dfa = KwGlobals0.kw_dfa
  /\ kw_dfa_built = KwGlobals0.kw_dfa_built
  /\ out = <<>>
  /\ emitted = <<>>
  /\ kw_res = NULL
  /\ cls_res = NULL
  /\ SL = NewStream(<<>>)
  /\ cur_res = NULL
  /\ words = <<>>
  /\ SyntaxIdle

\* main() of the scanner up to its scanning loop: the source file, one of
\* texts, is read whole, the Lexer set on it and the head of the table written
ReadSource(texts) ==
  /\ pc = "start"
  /\ \E src \in texts : L' = NewLexer(src)
  /\ out' = write_head(<<>>, DefaultPath)
  /\ pc' = "lex"
  /\ UNCHANGED <<kw_dfa, kw_dfa_built, emitted, kw_res, unitVars, loadVars, parseVars>>

\* one turn of main()'s scanning loop; after the eof row the loop is left and
\* the table closed
LexMain ==
  /\ pc = "lex"
  /\ \E r \in {next_token(L, [kw_dfa |-> kw_dfa, kw_dfa_built |-> kw_dfa_built])} :
       \E row \in {write_row(out, Shown(r.t), tname(r.t.type))} :
          /\ L' = r.L
          /\ kw_dfa' = r.G.kw_dfa
          /\ kw_dfa_built' = r.G.kw_dfa_built
          /\ emitted' = Append(emitted, [t    |-> r.t,
                                         from |-> Cursor(skip_ws(L)),
                                         to   |-> Cursor(r.L)])
          /\ out' = IF r.t.type = TOK_EOF THEN write_foot(row) ELSE row
          /\ pc' = IF r.t.type = TOK_EOF THEN "lexed" ELSE "lex"
  /\ UNCHANGED <<kw_res, unitVars, loadVars, parseVars>>

\* a source of n semicolons: n tokens before the end of the file
Semis(n) == [i \in 1..n |-> ";"]

SampleSources ==
  {<<"x"," ","="," ","a"," ","|","|"," ","b",";">>,
   <<"i","n","t"," ","x",";">>,
   <<"i","n","t"," ","x">>,
   <<"t","h","e","n"," ","p","l","e","a","s","e"," ","T","r","u","e">>,
   <<"a"," ","D","I","V"," ","b"," ","m","o","d"," ","c">>,
   <<"i","f"," ","i","f","f"," ","i"," ","I","n","t">>,
   <<"/","*"," ","a","\n"," ","*","/"," ","x">>,
   <<"y"," ","="," ","2","."," ",";">>,
   <<"s"," ","="," ","\"","a","b","\""," ",";">>,
   <<"c"," ","="," ","'","a","'"," ",";">>,
   <<"x"," ","="," ","1"," ","*","*"," ","2"," ","<","="," ","3"," ",";">>,
   <<"i","f"," ","(","x"," ","<"," ","5",")"," ","{"," ","p","r","i","n","t"," ","x",";"," ","}">>,
   <<"i","f"," ","(","x",")"," ","y"," ","="," ","1",";"," ","e","l","s","e"," ","y"," ","="," ","2",";">>,
   <<"w","h","i","l","e"," ","(","x",")"," ","{"," ","x"," ","="," ","x"," ","+"," ","1",";"," ","}">>,
   <<"f","o","r"," ","(","i"," ","="," ","0",";"," ","i"," ","<"," ","5",";"," ","i"," ","="," ","i"," ","+"," ","1",")"," ","{"," ","}">>,
   <<"f","o","r"," ","("," ",";"," ","x"," ",";"," ",")"," ","x">>,
   <<"i","n","p","u","t"," ","x",";"," ","i","n","p","u","t"," ",";">>,
   <<"x"," ","="," ","(","1"," ","*"," ","2"," ",";">>,
   <<"w","h","i","l","e"," ","x"," ","}"," ","x"," ","="," ",";">>,
   <<"a"," ","!","="," ","b"," ",">","="," ","c">>,
   <<"!","x">>,
   <<"\"","a","\\","\"","b","\"">>,
   <<"'","\\","n","'">>,
   <<"@"," ","#">>,
   <<"x"," ","+"," ","(","y",")"," ","-"," ","[","z","]">>,
   <<"t","r","u","e"," ","f","a","l","s","e">>,
   <<"x","_","1"," ","_","y">>,
   <<"f","l","o","a","t"," ","f",";"," ","b","e","g","i","n"," ","e","n","d">>,
   <<"1",".","5"," ","2","."," ","3">>,
   <<"/","/"," ","c","\n","x">>,
   <<"/","*"," ","o","p","e","n">>,
   <<"\"","o","p","e","n">>,
   <<"'","a","b","'">>,
   <<"a","*","*","b">>,
   <<"x","<","=","y">>,
   <<"a","&","&","b","|","|","c">>,
   <<"A"," ","M","O","D"," ","B">>,
   <<"=","=","=">>,
   <<"/","*","*","/","x","/","*","/">>,
   <<"/","*","/","*","/","1",".","2","5"," ","7","."," ","8","."," ",".","9">>,
   <<"&","|","'","\"","@","1",".","'","a">>,
   <<"F","a","l","s","e"," ","T","R","U","E"," ","t","r","u","e","x"," ","f","a","l","s","e">>}

\* the characters that matter inside a string literal
StringAlphabet == {"a", "\"", "\\", "\n"}

\* sources that open a string literal
StringSources == { <<"\"">> \o t : t \in Texts(StringAlphabet, MaxStrLen) }

InitScan == Idle

NextScan ==
  \/ ReadSource(Sources \cup SampleSources \cup StringSources)
  \/ LexMain

SpecScan == InitScan /\ [][NextScan]_vars

(* ---------------- keyword queries ---------------- *)

\* the proper prefixes of a word, the empty one included
Prefixes(w) == { SubSeq(w, 1, k) : k \in 0..(Len(w) - 1) }

\* the words is_keyword is asked about: every keyword, every proper prefix of
\* one, every keyword extended by one letter, and every short word
KwLetters == {"a", "e", "f", "i", "n", "s", "t"}

\* the words of the other classifiers: the noise words, the types, the
\* boolean literals and the word operators, some with a capital first letter
OtherWords ==
  {<<"p","l","e","a","s","e">>, <<"t","h","e">>, <<"t","o">>, <<"a","n","d">>, <<"f","r","o","m">>,
   <<"T","h","e","n">>, <<"D","o">>, <<"E","n","d">>,
   <<"i","n","t">>, <<"f","l","o","a","t">>, <<"c","h","a","r">>, <<"b","o","o","l">>, <<"v","o","i","d">>,
   <<"t","r","u","e">>, <<"f","a","l","s","e">>, <<"T","r","u","e">>,
   <<"d","i","v">>, <<"m","o","d">>, <<"D","I","V">>, <<"M","O","D">>}

KwQueries ==
  LET kws == { KEYWORDS[i] : i \in 1..KEYWORD_COUNT } IN
  kws \cup UNION { Prefixes(w) : w \in kws }
      \cup { Append(w, c) : w \in kws, c \in KwLetters }
      \cup Texts(KwLetters, MaxKwLen)
      \cup OtherWords

\* a call is_keyword(s, n) with n = strlen(s), as scan_identifier_or_keyword makes it
CallIsKeyword ==
  /\ pc = "start"
  /\ \E s \in KwQueries :
       LET r == is_keyword([kw_dfa |-> kw_dfa, kw_dfa_built |-> kw_dfa_built], s, Len(s)) IN
       /\ kw_dfa' = r.G.kw_dfa
       /\ kw_dfa_built' = r.G.kw_dfa_built
       /\ kw_res' = Ptr([s |-> s, n |-> Len(s), r |-> r.r])
  /\ UNCHANGED <<pc, out, L, emitted, unitVars, loadVars, parseVars>>

NextKw == CallIsKeyword

SpecKw == Idle /\ [][NextKw]_vars

(* ---------------- category labels ---------------- *)

\* the token kinds of the scanner
TokenTypes ==
  {TOK_IDENTIFIER, TOK_KEYWORD, TOK_RESERVED_TYPE, TOK_CONST_INT, TOK_CONST_FLOAT,
   TOK_CONST_CHAR, TOK_CONST_BOOL, TOK_CONST_STRING, TOK_OP_ARITH, TOK_OP_REL,
   TOK_OP_LOGIC, TOK_ASSIGN, TOK_DELIM, TOK_BRACKET, TOK_COMMENT, TOK_NOISE,
   TOK_UNKNOWN, TOK_EOF}

\* the category labels write_row is given by main()
WriterLabels == { tname(t) : t \in TokenTypes }

\* the labels map_kind is asked about: every label of the writer, every
\* proper prefix of one and every label extended by one character
MapQueries ==
  WriterLabels \cup UNION { Prefixes(w) : w \in WriterLabels }
               \cup { Append(w, c) : w \in WriterLabels, c \in {"s", "_", " "} }

\* a call map_kind(rawKind), as the loader makes it on the trimmed second column
CallMapKind ==
  /\ pc = "start"
  /\ \E label \in MapQueries :
       map_res' = Ptr([label |-> label, kind |-> map_kind(label)])
  /\ UNCHANGED <<pc, out, scanVars, fpos, g_tokens, beyond, g_tok_count, lastStore,
                 synthEof, dropped, parseVars>>

NextMap == CallMapKind

SpecMap == Idle /\ [][NextMap]_vars

(* ---------------- character classifier calls ---------------- *)

\* the int values the classifier is asked about: every char and unsigned
\* char value, EOF (-1) and values outside both ranges
CharCodes == (-MaxCode)..MaxCode

\* a call is_operator_char(c)
CallIsOperatorChar ==
  /\ pc = "start"
  /\ \E c \in CharCodes :
       cls_res' = Ptr([f |-> "is_operator_char", c |-> c, r |-> is_operator_char(c)])
  /\ UNCHANGED <<pc, out, L, kw_dfa, kw_dfa_built, emitted, kw_res, SL, cur_res,
                 words, loadVars, parseVars>>

NextClass == CallIsOperatorChar

SpecClass == Idle /\ [][NextClass]_vars

(* ---------------- cursor calls ---------------- *)

CursorAlphabet == {"a", "=", " ", "\n"}

\* both cursors are set on the same text
OpenCursors ==
  /\ pc = "start"
  /\ \E text \in Texts(CursorAlphabet, MaxCurLen) :
       /\ L' = NewLexer(text)
       /\ SL' = NewStream(text)
  /\ pc' = "cursor"
  /\ UNCHANGED <<out, kw_dfa, kw_dfa_built, emitted, kw_res, cls_res, cur_res,
                 words, loadVars, parseVars>>

\* the record of one cursor call made on both cursors
CursorCall(op, expected, r, rs) ==
  Ptr([op |-> op, expected |-> expected, L0 |-> L, S0 |-> SL, r |-> r, rs |-> rs])

CursorFrame ==
  UNCHANGED <<pc, out, kw_dfa, kw_dfa_built, emitted, kw_res, cls_res, words,
              loadVars, parseVars>>

CallPeek ==
  /\ pc = "cursor"
  /\ cur_res' = CursorCall("peek", NUL, peek(L), stream_peek(SL))
  /\ UNCHANGED <<L, SL>>
  /\ CursorFrame

CallAdvance ==
  /\ pc = "cursor"
  /\ L' = advance(L).L
  /\ SL' = stream_advance(SL).L
  /\ cur_res' = CursorCall("advance", NUL, advance(L).c, stream_advance(SL).c)
  /\ CursorFrame

\* match(L, expected) with a character, as every caller passes one
CallMatch ==
  /\ pc = "cursor"
  /\ \E expected \in CursorAlphabet :
       /\ L' = match(L, expected).L
       /\ SL' = stream_match(SL, expected).L
       /\ cur_res' = CursorCall("match", expected, match(L, expected).r,
                                stream_match(SL, expected).r)
  /\ CursorFrame

CallSkipWs ==
  /\ pc = "cursor"
  /\ L' = skip_ws(L)
  /\ SL' = stream_skip_ws(SL)
  /\ cur_res' = CursorCall("skip_ws", NUL, NUL, NUL)
  /\ CursorFrame

NextCursor ==
  \/ OpenCursors
  \/ CallPeek
  \/ CallAdvance
  \/ CallMatch
  \/ CallSkipWs

SpecCursor == Idle /\ [][NextCursor]_vars

(* ---------------- trie calls ---------------- *)

MaxInserts == 3

\* the words inserted: the empty one, words over two letters with their proper
\* prefixes and extensions, and around the keywords one keyword, a proper
\* prefix of a keyword and an extension
TrieWords ==
  { <<>>, <<"a">>, <<"b">>,
    <<"a", "a">>, <<"a", "b">>, <<"b", "a">>, <<"b", "b">>,
    <<"a", "a", "b">>, <<"a", "b", "a">>, <<"a", "b", "b">>, <<"b", "a", "b">>,
    <<"i">>, <<"i", "f">>, <<"i", "f", "a">> }

\* the allocation of an empty chain list, as build_keyword_dfa makes it
TrieAlloc ==
  /\ pc = "start"
  /\ kw_dfa' = [start |-> <<>>, sSize |-> 0]
  /\ words' = <<>>
  /\ pc' = "trie"
  /\ UNCHANGED <<out, L, kw_dfa_built, emitted, kw_res, cls_res, SL, cur_res,
                 loadVars, parseVars>>

\* a call build_keyword_dfa()
CallBuildKeywordDfa ==
  /\ pc = "start"
  /\ \E g \in {build_keyword_dfa([kw_dfa |-> kw_dfa, kw_dfa_built |-> kw_dfa_built])} :
       /\ kw_dfa' = g.kw_dfa
       /\ kw_dfa_built' = g.kw_dfa_built
  /\ words' = KEYWORDS
  /\ pc' = "trie"
  /\ UNCHANGED <<out, L, emitted, kw_res, cls_res, SL, cur_res, loadVars, parseVars>>

\* the insertions made after those of build_keyword_dfa
Inserted == Len(words) - (IF kw_dfa_built = 1 THEN KEYWORD_COUNT ELSE 0)

\* a call dfa_add_symbol(&kw_dfa, w)
CallAddSymbol ==
  /\ pc = "trie"
  /\ Inserted < MaxInserts
  /\ \E w \in TrieWords :
       /\ kw_dfa' = dfa_add_symbol(kw_dfa, Mem(w))
       /\ words' = Append(words, w)
  /\ UNCHANGED <<pc, out, L, kw_dfa_built, emitted, kw_res, cls_res, SL, cur_res,
                 loadVars, parseVars>>

NextTrie == TrieAlloc \/ CallBuildKeywordDfa \/ CallAddSymbol

SpecTrie == Idle /\ [][NextTrie]_vars

(* ---------------- the comment scanner of the modular variant ---------------- *)

MaxCmtLen == 3

CommentAlphabet == {"a", "/", "\n"}

\* sources that start a line comment
CommentSources == { <<"/", "/">> \o t : t \in Texts(CommentAlphabet, MaxCmtLen) }

CommentFrame ==
  UNCHANGED <<out, L, kw_dfa, kw_dfa_built, emitted, kw_res, cls_res, words,
              loadVars, parseVars>>

\* the stream Lexer is set on a source and scan_comment(L) is called:
\* int sc = L->col
OpenComment ==
  /\ pc = "start"
  /\ \E text \in CommentSources : SL' = NewStream(text)
  /\ cur_res' = Ptr([sc |-> 1])
  /\ pc' = "cmt_begin"
  /\ CommentFrame

\* the test of the while loop of scan_comment on "//"
comment_goes_on(l) == stream_peek(l) # EOF \/ stream_peek(l) # "\n"

\* One step of scan_comment on "//": the two match calls, then one turn of
\* the while loop per step, then the token.  The "/*" branch is not taken on
\* the sources of this model.
scan_comment ==
  \/ /\ pc = "cmt_begin"
     /\ stream_match(SL, "/").r = 1
     /\ stream_match(stream_match(SL, "/").L, "/").r = 1
     /\ SL' = stream_match(stream_match(SL, "/").L, "/").L
     /\ pc' = "cmt_loop"
     /\ UNCHANGED cur_res
     /\ CommentFrame
  \/ /\ pc = "cmt_loop"
     /\ IF comment_goes_on(SL)
        THEN /\ SL' = stream_advance(SL).L
             /\ UNCHANGED <<pc, cur_res>>
        ELSE /\ cur_res' = Ptr([type |-> TOK_COMMENT, lexeme |-> <<"/", "/">>,
                                line |-> SL.line, col |-> Deref(cur_res).sc])
             /\ pc' = "cmt_done"
             /\ UNCHANGED SL
     /\ CommentFrame

NextComment == OpenComment \/ scan_comment

SpecComment == Idle /\ [][NextComment]_vars

\* the call runs on: a loop is not left waiting with a turn to take
SpecCommentLive == SpecComment /\ WF_vars(scan_comment)

(* ---------------- token tables ---------------- *)
\* a data row: the lexeme shown and the scanner's token type, written with tname
Row(lex, ty) == [lex |-> lex, tok |-> tname(ty)]

rType == Row(<<"i","n","t">>, TOK_RESERVED_TYPE)
rId == Row(<<"x">>, TOK_IDENTIFIER)
rNum == Row(<<"5">>, TOK_CONST_INT)
rAssign == Row(<<"=">>, TOK_ASSIGN)
rLt == Row(<<"<">>, TOK_OP_REL)
rPlus == Row(<<"+">>, TOK_OP_ARITH)
rMinus == Row(<<"-">>, TOK_OP_ARITH)
rStar == Row(<<"*">>, TOK_OP_ARITH)
rOr == Row(<<"|","|">>, TOK_OP_LOGIC)
rSemi == Row(<<";">>, TOK_DELIM)
rLp == Row(<<"(">>, TOK_BRACKET)
rRp == Row(<<")">>, TOK_BRACKET)
rLb == Row(<<"{">>, TOK_BRACKET)
rRb == Row(<<"}">>, TOK_BRACKET)
rIf == Row(<<"i","f">>, TOK_KEYWORD)
rElse == Row(<<"e","l","s","e">>, TOK_KEYWORD)
rWhile == Row(<<"w","h","i","l","e">>, TOK_KEYWORD)
rFor == Row(<<"f","o","r">>, TOK_KEYWORD)
rPrint == Row(<<"p","r","i","n","t">>, TOK_KEYWORD)
rInput == Row(<<"i","n","p","u","t">>, TOK_KEYWORD)
rThen == Row(<<"t","h","e","n">>, TOK_KEYWORD)
rUnknown == Row(<<"@">>, TOK_UNKNOWN)
rComment == Row(<<"/","/"," ","c">>, TOK_COMMENT)
rNoise == Row(<<"p","l","e","a","s","e">>, TOK_NOISE)
rStr == Row(<<"a">>, TOK_CONST_STRING)
rEofText == Row(<<"E","O","F">>, TOK_EOF)
rEofEmpty == Row(<<>>, TOK_EOF)

\* token rows of sample programs, well-formed and malformed
SamplePrograms ==
  {<<rType, rId, rSemi>>,
   <<rType, rId>>,
   <<rType, rId, rType, rId, rSemi>>,
   <<rType, rSemi, rId, rAssign, rNum, rSemi>>,
   <<rId, rAssign, rNum, rSemi>>,
   <<rId, rAssign, rId, rPlus, rNum, rStar, rId, rSemi>>,
   <<rId, rAssign, rLp, rId, rLt, rNum, rRp, rSemi>>,
   <<rId, rAssign, rId, rOr, rId, rSemi>>,
   <<rPrint, rId, rSemi>>,
   <<rInput, rId, rSemi>>,
   <<rInput, rSemi, rPrint, rSemi>>,
   <<rIf, rLp, rId, rLt, rNum, rRp, rLb, rPrint, rId, rSemi, rRb>>,
   <<rIf, rLp, rId, rRp, rPrint, rId, rSemi, rElse, rPrint, rNum, rSemi>>,
   <<rIf, rLp, rId, rRp, rIf, rLp, rId, rRp, rId, rAssign, rNum, rSemi, rElse, rId, rAssign, rId, rSemi>>,
   <<rWhile, rLp, rId, rRp, rLb, rId, rAssign, rId, rSemi, rType, rId, rSemi, rRb>>,
   <<rWhile, rId, rRb, rId, rAssign, rNum, rSemi>>,
   <<rFor, rLp, rId, rAssign, rNum, rSemi, rId, rLt, rNum, rSemi, rId, rAssign, rId, rPlus, rNum, rRp, rLb, rRb>>,
   <<rFor, rLp, rSemi, rId, rSemi, rRp, rId>>,
   <<rFor, rLp, rId, rAssign, rNum, rSemi, rId, rSemi, rId, rRp, rPrint, rId, rSemi>>,
   <<rFor, rLp, rId, rAssign, rNum, rSemi, rId, rSemi, rId, rAssign, rId, rRp, rPrint, rId, rSemi, rEofEmpty>>,
   <<rRb, rId, rAssign, rNum, rSemi>>,
   <<rId, rAssign, rSemi>>,
   <<rId, rAssign, rLp, rId, rSemi, rPrint, rId, rSemi>>,
   <<rId, rAssign, rLp, rNum, rRb, rId, rAssign, rNum, rSemi>>,
   <<rComment, rId, rAssign, rNum, rSemi>>,
   <<rNoise, rPrint, rId, rSemi>>,
   <<rThen>>,
   <<rUnknown, rSemi, rId, rAssign, rNum, rSemi>>,
   <<rId, rAssign, rStr, rSemi>>,
   <<rIf, rLp, rId, rRp, rLb, rId, rAssign, rNum, rSemi>>,
   <<rType, rId, rSemi, rEofText>>,
   <<rType, rId, rSemi, rEofEmpty>>,
   <<rType, rId, rSemi, rEofText, rPrint, rId, rSemi>>,
   <<rId, rAssign, rId, rLt, rId, rLt, rId, rSemi>>,
   <<rId, rAssign, rMinus, rNum, rSemi>>,
   <<rElse, rId, rAssign, rNum, rSemi>>}

rWriteln == Row(<<"w","r","i","t","e","l","n">>, TOK_KEYWORD)
rBool == Row(<<"t","r","u","e">>, TOK_CONST_BOOL)
rTen == Row(<<"1","0">>, TOK_CONST_INT)

(* ---------------- sentences of the grammar ---------------- *)

\* the concatenations of a sequence of A with a sequence of B
Cat(A, B) == { a \o b : a \in A, b \in B }

\* factor -> IDENTIFIER | literal, and term, simple_expr and expression
\* without parentheses
GFactor == {<<rId>>, <<rNum>>, <<rBool>>}
GTerm == GFactor \cup Cat({<<rId, rStar>>}, {<<rNum>>})
GSimpleExpr == GTerm \cup Cat({<<rId, rPlus>>}, {<<rNum>>, <<rId, rStar, rNum>>})
GRelExpr == Cat({<<rId, rLt>>}, {<<rNum>>, <<rId, rPlus, rNum>>})

\* factor -> '(' expression ')', alone and inside a term, a sum and a relation
GParen == Cat(Cat({<<rLp>>}, {<<rId>>, <<rId, rLt, rNum>>, <<rLp, rNum, rRp>>}), {<<rRp>>})
GParenExpr ==
  GParen \cup Cat({<<rLp, rId, rPlus, rNum, rRp>>}, {<<rStar, rNum>>, <<rLt, rLp, rId, rRp>>})

\* expression -> simple_expr [ relop simple_expr ]
GExpression == GSimpleExpr \cup GRelExpr \cup GParenExpr

\* the conditions of the compound statements
GCondition == {<<rId>>, <<rId, rLt, rNum>>}

\* decl_stmt, input_stmt, print_stmt and assign_stmt
GDeclStmt == {<<rType, rId, rSemi>>}
GInputStmt == {<<rInput, rId, rSemi>>}
GPrintStmt == Cat(Cat({<<rPrint>>, <<rWriteln>>}, GExpression), {<<rSemi>>})
GAssignStmt == Cat(Cat({<<rId, rAssign>>}, GExpression), {<<rSemi>>})
GSimpleStmt == GDeclStmt \cup GInputStmt \cup GPrintStmt \cup GAssignStmt

\* block -> '{' stmt_list '}' | statement, over the statements of S
GBlock(S) ==
  S \cup Cat(Cat({<<rLb>>}, {<<>>} \cup S \cup Cat(S, S)), {<<rRb>>})

\* if_stmt -> 'if' '(' expression ')' block [ 'else' block ]
GIfStmt(B, E) ==
  LET head == Cat(Cat(Cat({<<rIf, rLp>>}, GCondition), {<<rRp>>}), B)
  IN head \cup Cat(Cat(head, {<<rElse>>}), E)

\* while_stmt -> 'while' '(' expression ')' block
GWhileStmt(B) == Cat(Cat(Cat({<<rWhile, rLp>>}, GCondition), {<<rRp>>}), B)

\* for_stmt -> 'for' '(' assign_stmt expression ';' assign_upd ')' block
GForStmt(B) ==
  Cat(Cat(Cat(Cat({<<rFor, rLp, rId, rAssign, rNum, rSemi>>}, GCondition), {<<rSemi>>}),
          {<<rId, rAssign, rId, rPlus, rNum, rRp>>}),
      B)

\* the statements the blocks are built from
GBody == {<<rId, rAssign, rNum, rSemi>>, <<rPrint, rId, rSemi>>}

\* compound statements whose blocks hold simple statements
GCompound ==
  LET B == GBlock(GBody)
      E == {<<rPrint, rId, rSemi>>, <<rLb, rRb>>, <<rLb, rType, rId, rSemi, rRb>>}
  IN GIfStmt(B, E) \cup GWhileStmt(B) \cup GForStmt(B)

\* compound statements whose blocks hold compound statements
GNested ==
  LET inner == {<<rIf, rLp, rId, rRp, rPrint, rId, rSemi>>,
                <<rWhile, rLp, rId, rRp, rLb, rRb>>}
      B == inner \cup Cat(Cat({<<rLb>>}, inner), {<<rRb>>})
  IN GIfStmt(B, {<<rPrint, rNum, rSemi>>}) \cup GWhileStmt(B) \cup GForStmt(B)

\* the examples `int x;`, `x = 5;` and `if (x < 10) { print x; }`
GExamples ==
  {<<rType, rId, rSemi>>,
   <<rId, rAssign, rNum, rSemi>>,
   <<rIf, rLp, rId, rLt, rTen, rRp, rLb, rPrint, rId, rSemi, rRb>>}

\* program -> stmt_list EOF: the token rows of the sentences, the eof row apart
GPrograms ==
  LET one == GSimpleStmt \cup GCompound \cup GNested \cup GExamples
      few == {<<rType, rId, rSemi>>, <<rId, rAssign, rNum, rSemi>>,
              <<rWhile, rLp, rId, rRp, rLb, rInput, rId, rSemi, rRb>>}
  IN {<<>>} \cup one \cup Cat(few, few) \cup Cat(Cat(few, few), {<<rPrint, rId, rSemi>>})

\* the parser tokens load_tokens_from_symbol_table stores for the rows
TokensOf(rows) ==
  [i \in 1..Len(rows) |-> [kind |-> map_kind(rows[i].tok), lexeme |-> rows[i].lex]]

\* the token streams of the sentences
GSentences == { TokensOf(p) : p \in GPrograms }

\* sentences with a comment or a noise word put between their tokens
GInert ==
  LET base == {<<rType, rId, rSemi>>,
               <<rId, rAssign, rId, rPlus, rNum, rSemi>>,
               <<rIf, rLp, rId, rRp, rLb, rPrint, rId, rSemi, rRb>>}
  IN UNION { { SubSeq(p, 1, k) \o <<x>> \o SubSeq(p, k + 1, Len(p)) :
                 k \in 0..Len(p), x \in {rComment, rNoise} } : p \in base }

\* the rows enumerated exhaustively in short tables
RowAlphabet == {rId, rNum, rAssign, rSemi, rLp, rIf, rRb, rEofText}

\* the width of a table line, its newline included
LineWidth == Len(write_row(<<>>, <<>>, <<>>))

\* The table the scanner's writers produce for the rows: the head, one
\* write_row line per row (each LineWidth wide) and the foot.
TableOf(rows) ==
  LET lines == [k \in 1..Len(rows) |-> write_row(<<>>, rows[k].lex, rows[k].tok)]
      body  == [i \in 1..(LineWidth * Len(rows)) |->
                  lines[((i - 1) \div LineWidth) + 1][((i - 1) % LineWidth) + 1]]
  IN write_foot(write_head(<<>>, DefaultPath) \o body)

Fill(n) == [i \in 1..n |-> rSemi]

\* n rows of declarations int x ;
DeclRows(n) ==
  [i \in 1..n |-> IF i % 3 = 1 THEN rType ELSE IF i % 3 = 2 THEN rId ELSE rSemi]

\* tables whose row count reaches the capacity of g_tokens; in the last one
\* the row that fills the array is an eof row and one more row follows
LongRows ==
  { Fill(n) \o tail : n \in (MAX_TOKENS - 2)..(MAX_TOKENS + 1),
                      tail \in Texts({rId, rEofText}, 1) }
  \cup {DeclRows(MAX_TOKENS - 1) \o <<rEofText, rId>>}

Tables ==
  { TableOf(rows) : rows \in Texts(RowAlphabet, MaxRows) \cup SamplePrograms \cup LongRows
                             \cup GPrograms \cup GInert }

(* ---------------- the syntax analyzer alone ---------------- *)

InitSyntax == Idle

\* main() of the syntax analyzer opens SymbolTable.txt, which holds one of
\* the tables
OpenTable ==
  /\ pc = "start"
  /\ out' \in Tables
  /\ pc' = "load"
  /\ UNCHANGED <<scanVars, loadVars, parseVars>>

\* a step of the analyzer once the table is open
SyntaxStep ==
  \/ LoadLine
  \/ LoadEnd
  \/ Parse
  \/ SyntaxMainEnd

NextSyntax ==
  \/ OpenTable
  \/ SyntaxStep

SpecSyntax == InitSyntax /\ [][NextSyntax]_vars

\* the parser is sequential code: once entered it keeps taking its next step
SpecSyntaxLive == SpecSyntax /\ WF_vars(Parse \/ SyntaxMainEnd)

(* ---------------- the two programs in sequence ---------------- *)

\* the syntax analyzer is started on the table the scanner wrote
RunSyntax ==
  /\ pc = "lexed"
  /\ pc' = "load"
  /\ UNCHANGED <<out, scanVars, loadVars, parseVars>>

PipeAlphabet == {"a", "1", "=", ";", "|", "(", "\"", " "}

PipeSources ==
  Texts(PipeAlphabet, MaxPipeLen) \cup SampleSources
    \cup { Semis(n) : n \in (MAX_TOKENS - 1)..MAX_TOKENS }

Init == Idle

Next ==
  \/ ReadSource(PipeSources)
  \/ LexMain
  \/ RunSyntax
  \/ SyntaxStep

Spec == Init /\ [][Next]_vars

(* ---------------- properties of the scanner ---------------- *)

\* the tokens next_token has returned so far
Emitted == { emitted[i] : i \in 1..Len(emitted) }

\* the characters of the input from position p (from 0) to before position q
Slice(p, q) == SubSeq(L.buf, p + 1, q)

\* An eof token is returned only with the cursor at the end of the input, it
\* is the last token of the stream, and the scanning loop is left exactly on it.
EofOnlyAtEnd ==
  /\ \A i \in 1..Len(emitted) :
       emitted[i].t.type = TOK_EOF =>
         /\ i = Len(emitted)
         /\ emitted[i].from.pos = L.len
         /\ emitted[i].to.pos = L.len
  /\ pc = "lexed" <=> (emitted # <<>> /\ emitted[Len(emitted)].t.type = TOK_EOF)

\* the cursor stays within the input, and n calls that did not return eof
\* have consumed at least n characters
CallsBounded ==
  /\ L.pos <= L.len
  /\ pc = "lex" => Len(emitted) <= L.pos

\* a call of next_token in the scanning loop either moves the cursor forward
\* or returns eof, which ends the loop
CallProgresses == pc = "lex" => (L'.pos > L.pos \/ pc' = "lexed")

\* C1: for every finite input, repeated calls of next_token reach a token of
\* kind eof after finitely many calls (every call that does not return eof
\* moves the cursor forward, so at most len + 1 calls are made); that token is
\* the last of the stream, and no eof token is returned before the cursor has
\* reached the end.
C1_ScanTerminatesWithEof ==
  [][CallProgresses]_vars /\ [](EofOnlyAtEnd /\ CallsBounded)

\* an input of malformed lexemes only has been scanned to its eof token,
\* which follows at least two other tokens
C1_Witness ==
  /\ pc = "lexed"
  /\ Len(emitted) >= 3
  /\ \A i \in 1..(Len(emitted) - 1) : emitted[i].t.type = TOK_UNKNOWN
  /\ emitted[Len(emitted)].t.type = TOK_EOF

\* the two-character operators
TwoCharOperators ==
  {<<"=","=">>, <<"!","=">>, <<"<","=">>, <<">","=">>, <<"&","&">>, <<"|","|">>, <<"*","*">>}

\* the token e starts at one of the two-character operators
StartsAtPair(e) ==
  /\ e.from.pos + 2 <= L.len
  /\ Slice(e.from.pos, e.from.pos + 2) \in TwoCharOperators

\* C2: maximal munch.  Whenever next_token starts, after the white space, at
\* one of the pairs == != <= >= && || **, the token returned has that pair as
\* its lexeme and both characters are consumed.
C2_MaximalMunch ==
  \A e \in Emitted :
    StartsAtPair(e) =>
      /\ e.t.lexeme # NULL
      /\ Deref(e.t.lexeme) = Slice(e.from.pos, e.from.pos + 2)
      /\ e.to.pos = e.from.pos + 2

\* a pair followed at once by a further operator character was scanned: the
\* pair came out as one token
C2_Witness ==
  \E i \in 1..Len(emitted) :
    /\ StartsAtPair(emitted[i])
    /\ emitted[i].to.pos < L.len
    /\ L.buf[emitted[i].to.pos + 1] = "="
    /\ i < Len(emitted)

\* C9: every token next_token returns, other than eof, carries the line and
\* the column at which its first character stood.
C9_TokenCarriesStart ==
  \A e \in Emitted :
    e.t.type # TOK_EOF => e.t.line = e.from.line /\ e.t.col = e.from.col

\* the position after the word that starts at position p (from 0)
WordEnd(p) ==
  CHOOSE q \in (p + 1)..L.len :
    /\ \A k \in (p + 1)..q : isalnum(L.buf[k]) \/ L.buf[k] = "_"
    /\ q = L.len \/ ~(isalnum(L.buf[q + 1]) \/ L.buf[q + 1] = "_")

\* the categories of a word, in the order of their priority
WordCategories(w) ==
  LET s == Mem(w)
      n == Len(w)
  IN <<[is |-> is_bool_lit(s, n) # -1,  type |-> TOK_CONST_BOOL],
       [is |-> is_word_op(s, n).r # 0,  type |-> TOK_OP_ARITH],
       [is |-> is_type(s, n),           type |-> TOK_RESERVED_TYPE],
       [is |-> \E i \in 1..KEYWORD_COUNT : KEYWORDS[i] = w, type |-> TOK_KEYWORD],
       [is |-> is_noise(s, n),          type |-> TOK_NOISE],
       [is |-> TRUE,                    type |-> TOK_IDENTIFIER]>>

\* the earliest category the word matches
FirstCategory(w) ==
  LET cs == WordCategories(w)
      i  == CHOOSE k \in 1..Len(cs) : cs[k].is /\ \A j \in 1..(k - 1) : ~cs[j].is
  IN cs[i].type

\* the token e starts at a letter or an underscore
StartsWord(e) ==
  /\ e.from.pos < L.len
  /\ isalpha(L.buf[e.from.pos + 1]) \/ L.buf[e.from.pos + 1] = "_"

KeywordSet == { KEYWORDS[i] : i \in 1..KEYWORD_COUNT }

\* C3: with the trie built from the 22 words of KEYWORDS, is_keyword(s, n)
\* returns true exactly when s[0..n-1] is one of those words, and false for
\* every other string: proper prefixes, proper extensions, the empty string.
C3_IsKeywordExact ==
  /\ KEYWORD_COUNT = 22
  /\ Cardinality(KeywordSet) = 22
  /\ kw_res # NULL =>
       /\ kw_dfa_built = 1
       /\ Deref(kw_res).r \in {0, 1}
       /\ Deref(kw_res).r = 1 <=> Deref(kw_res).s \in KeywordSet

\* is_keyword was asked about "els", a proper prefix of a keyword, and said no
C3_Witness ==
  /\ kw_res # NULL
  /\ Deref(kw_res).s = <<"e","l","s">>
  /\ Deref(kw_res).s \o <<"e">> \in KeywordSet
  /\ Deref(kw_res).r = 0

(* ---------------- properties of the loader ---------------- *)

\* load_tokens_from_symbol_table has returned
Loaded == pc \in {"parse", "done"}

\* the category word of a parser token kind
PTName(kind) ==
  CASE kind = PT_KEYWORD    -> <<"k","e","y","w","o","r","d">>
    [] kind = PT_IDENTIFIER -> <<"i","d","e","n","t","i","f","i","e","r">>
    [] kind = PT_TYPE       -> <<"t","y","p","e">>
    [] kind = PT_INTCONST   -> <<"c","o","n","s","t","_","i","n","t">>
    [] kind = PT_FLOATCONST -> <<"c","o","n","s","t","_","f","l","o","a","t">>
    [] kind = PT_CHARCONST  -> <<"c","o","n","s","t","_","c","h","a","r">>
    [] kind = PT_BOOLCONST  -> <<"c","o","n","s","t","_","b","o","o","l">>
    [] kind = PT_OPERATOR   -> <<"o","p","e","r","a","t","o","r">>
    [] kind = PT_SYMBOL     -> <<"p","u","n","c","t","u","a","t","o","r">>
    [] kind = PT_COMMENT    -> <<"c","o","m","m","e","n","t">>
    [] kind = PT_NOISE      -> <<"n","o","i","s","e">>
    [] kind = PT_EOF        -> <<"e","o","f">>
    [] OTHER                -> <<"u","n","k","n","o","w","n">>

\* C4: round trip.  For every token sequence the scanner emits whose shown
\* lexemes are at most 20 characters long, the loader reads back from the
\* written table as many tokens, in the same order, each of the same category
\* and (the eof token apart, which has no lexeme) the same lexeme.
C4_RoundTrip ==
  (Loaded /\ \A e \in Emitted : Len(Shown(e.t)) <= 20) =>
    /\ g_tok_count = Len(emitted)
    /\ Len(g_tokens) = Len(emitted)
    /\ \A i \in 1..Len(emitted) :
         i <= Len(g_tokens) =>
           /\ PTName(g_tokens[i].kind) = tname(emitted[i].t.type)
           /\ emitted[i].t.type # TOK_EOF => g_tokens[i].lexeme = Shown(emitted[i].t)

OrSource == <<"x"," ","="," ","a"," ","|","|"," ","b",";">>

\* C5: the source "x = a || b;" run through both programs: the || token is
\* loaded as an operator token with lexeme ||, parse_simple_expr accepts it
\* between two terms, and no syntax error is reported.
C5_OrParses ==
  (pc = "done" /\ L.buf = OrSource) =>
    /\ \E i \in 1..Len(g_tokens) :
         g_tokens[i] = [kind |-> PT_OPERATOR, lexeme |-> <<"|","|">>]
    /\ \E k \in 1..Len(trace) :
         trace[k][1] = "leaf" /\ trace[k][2] = "symbol" /\ trace[k][4] = <<"|","|">>
    /\ g_error = 0
    /\ errlog = <<>>
    /\ verdict = "Program is syntactically correct"

\* the last element of the parser's token sequence has kind eof
LastIsEof == g_tok_count > 0 /\ Tok(g_tok_count - 1).kind = PT_EOF

\* C7: after the loader returns, the token sequence is non-empty and its last
\* element has kind eof; the synthetic eof token was appended exactly when no
\* token was loaded or the last loaded one was not eof.
C7_LoadedEndsInEof ==
  Loaded =>
    /\ g_tok_count >= 1
    /\ LastIsEof
    /\ synthEof => (g_tok_count = 1 \/ Tok(g_tok_count - 2).kind # PT_EOF)
    /\ ~synthEof => lastStore = g_tok_count - 1

\* C8: every store into g_tokens, the synthetic eof token's included, uses an
\* index below MAX_TOKENS, and g_tok_count never exceeds MAX_TOKENS.
C8_StoresInBounds == lastStore < MAX_TOKENS /\ g_tok_count <= MAX_TOKENS

(* ---------------- properties of the parser ---------------- *)

\* the statement loop of parse_stmt_list or of parse_block is about to call
\* parse_statement
AttemptsStatement ==
  /\ pc = "parse"
  /\ stack # <<>>
  /\ \/ /\ Top.proc = "parse_stmt_list"
        /\ Top.pc = "begin"
        /\ cur_tok(Reg).kind # PT_EOF
     \/ /\ Top.proc = "parse_block"
        /\ Top.pc = "loop"
        /\ cur_tok(Reg).kind # PT_EOF
        /\ ~IsSymbol(Reg, <<"}">>)

\* when a statement is attempted, the token index is past the place of the
\* latest syntax error
ProgressAfterError == (LastIsEof /\ AttemptsStatement) => lastErrIdx < g_tok_index

\* C6: for every token stream ending in eof, parsing terminates, and after
\* any syntax error the token index has strictly increased before the
\* statement loop of parse_stmt_list or parse_block attempts its next
\* statement.
C6_ParsingTerminates ==
  /\ []ProgressAfterError
  /\ (pc = "parse" /\ LastIsEof) ~> (pc = "done")

\* a statement is attempted after at least two syntax errors, none of the
\* statements before it having parsed without one
C6_Witness ==
  /\ LastIsEof
  /\ AttemptsStatement
  /\ Len(errlog) >= 2
  /\ lastErrIdx >= 1
  /\ errlog[1].msg = "Unexpected token at start of statement"

(* ---------------- properties of the parser on sentences ---------------- *)

\* the tokens the parser was given, the final eof token apart
Given == SubSeq(g_tokens, 1, Len(g_tokens) - 1)

\* the parser was given a stream that ends in its only eof token
GivenEndsInEof ==
  /\ g_tokens # <<>>
  /\ g_tok_count = Len(g_tokens)
  /\ g_tokens[Len(g_tokens)].kind = PT_EOF

\* the run ended without a syntax error
CleanVerdict ==
  /\ g_error = 0
  /\ errlog = <<>>
  /\ verdict = "Program is syntactically correct"

\* C11: for every token stream that is a sentence of the grammar followed by
\* eof, the parser finishes with the error flag clear and reports the program
\* syntactically correct; `int x;`, `x = 5;` and `if (x < 10) { print x; }`
\* are among them.
C11_SentencesParse ==
  /\ GExamples \subseteq GPrograms
  /\ (pc = "done" /\ GivenEndsInEof /\ Given \in GSentences) => CleanVerdict

\* the run on `if (x < 10) { print x; }` has ended: an ifStatement with a
\* relational condition and a block was traced, and no error reported
C11_Witness ==
  /\ pc = "done"
  /\ GivenEndsInEof
  /\ Given = TokensOf(<<rIf, rLp, rId, rLt, rTen, rRp, rLb, rPrint, rId, rSemi, rRb>>)
  /\ \E k \in 1..Len(trace) : trace[k][1] = "open" /\ trace[k][2] = "ifStatement"
  /\ \E k \in 1..Len(trace) : trace[k][1] = "leaf" /\ trace[k][4] = <<"<">>
  /\ CleanVerdict

\* a token of kind comment or noise
IsInert(t) == t.kind \in {PT_COMMENT, PT_NOISE}

\* C16: a sentence of the grammar stays free of syntax errors when comment
\* or noise tokens stand between its tokens.
C16_InertTokens ==
  (pc = "done" /\ GivenEndsInEof /\ SelectSeq(Given, LAMBDA t : ~IsInert(t)) \in GSentences)
    => CleanVerdict

(* ---------------- properties of error handling ---------------- *)

\* the tokens of `int x int y;`: the ';' of the first declaration is missing
MissingSemi == TokensOf(<<rType, rId, rType, rId, rSemi>>)

\* the number of tags of the trace that open a node called name
Opened(name) ==
  Cardinality({ k \in 1..Len(trace) : trace[k][1] = "open" /\ trace[k][2] = name })

\* C12: for the tokens type, identifier, type, identifier, ';', eof exactly
\* one syntax error is reported, "Missing ';' after declaration"; recovery
\* skips to the next ';' and consumes it, so that no second declaration is
\* parsed; the parse runs to completion and the verdict is that the program
\* has syntax errors.
C12_MissingSemicolon ==
  /\ []((pc = "done" /\ GivenEndsInEof /\ Given = MissingSemi) =>
          /\ Len(errlog) = 1
          /\ errlog[1].msg = "Missing ';' after declaration"
          /\ errlog[1].near = <<"i","n","t">>
          /\ lastErrIdx = 2
          /\ g_tok_index = 5
          /\ Opened("declStatement") = 1
          /\ g_error = 1
          /\ verdict = "Program has syntax errors")
  /\ ((pc = "parse" /\ GivenEndsInEof /\ Given = MissingSemi) ~> (pc = "done"))

\* the run on `int x int y;` has ended with its one error
C12_Witness ==
  /\ pc = "done"
  /\ GivenEndsInEof
  /\ Given = MissingSemi
  /\ Len(errlog) = 1
  /\ g_tok_index = 5

\* panic_recover is running; it was entered at token index lastErrIdx, the
\* index of the error reported just before the call
PanicRunning == At("panic_recover", "begin")

\* a statement boundary: the symbol ';' or '}'
IsBoundary(t) == t.kind = PT_SYMBOL /\ (t.lexeme = <<";">> \/ t.lexeme = <<"}">>)

\* the tokens panic_recover has passed are neither eof nor a boundary
PanicSkipsOnly ==
  PanicRunning =>
    /\ lastErrIdx <= g_tok_index
    /\ \A k \in lastErrIdx..(g_tok_index - 1) :
         Tok(k).kind # PT_EOF /\ ~IsBoundary(Tok(k))

\* panic_recover returns either on eof, which it leaves in place, or on a
\* boundary, which it consumes
PanicStops ==
  (PanicRunning /\ Len(stack') < Len(stack)) =>
    \/ Tok(g_tok_index).kind = PT_EOF /\ g_tok_index' = g_tok_index
    \/ /\ Tok(g_tok_index).kind # PT_EOF
       /\ IsBoundary(Tok(g_tok_index))
       /\ g_tok_index' = g_tok_index + 1

\* C13: panic_recover started at index i stops with the current token being
\* eof or the token right after the first ';' or '}' at an index >= i: it
\* consumes that boundary, nothing after it, and never the eof token.
C13_PanicStopsAtBoundary == []PanicSkipsOnly /\ [][PanicStops]_vars

\* panic_recover has skipped at least two tokens and stands on a boundary
\* that is followed by more tokens
C13_Witness ==
  /\ PanicRunning
  /\ g_tok_index >= lastErrIdx + 2
  /\ IsBoundary(Tok(g_tok_index))
  /\ g_tok_index + 2 < g_tok_count

\* a step of a production reports a syntax error
ReportsError == pc = "parse" /\ pc' = "parse" /\ Len(errlog') > Len(errlog)

\* C14: whenever a production reports a syntax error, panic_recover runs
\* before any production goes on examining tokens.
C14_ErrorThenRecovery ==
  [][ReportsError => (stack' # <<>> /\ stack'[Len(stack')].proc = "panic_recover")]_vars

\* the flag is clear when a parse run starts
FlagClearedAtStart == (pc # "parse" /\ pc' = "parse") => g_error' = 0

\* the flag is never cleared during a run
FlagStaysSet == (pc = "parse" /\ g_error # 0) => g_error' # 0

\* during and after a run the flag is set exactly when a syntax error was reported
FlagMeansError == pc \in {"parse", "done"} => (g_error # 0 <=> errlog # <<>>)

\* the verdict is "syntactically correct" exactly when no error was reported
VerdictMeansNoError ==
  pc = "done" =>
    /\ verdict \in {"Program is syntactically correct", "Program has syntax errors"}
    /\ verdict = "Program is syntactically correct" <=> errlog = <<>>

\* C15: the error flag is cleared at the start of a parse run, set by every
\* syntax_error call, never cleared during the run, and the final verdict is
\* "syntactically correct" if and only if no syntax error was reported.
C15_ErrorFlag ==
  /\ [][FlagClearedAtStart /\ FlagStaysSet]_vars
  /\ [](FlagMeansError /\ VerdictMeansNoError)

\* a run has ended with two syntax errors reported and the flag set
C15_Witness ==
  /\ pc = "done"
  /\ Len(errlog) >= 2
  /\ g_error = 1
  /\ verdict = "Program has syntax errors"

(* ---------------- properties of map_kind ---------------- *)

\* C17: every category label the scanner's table writer can emit, the label
\* unknown apart, is mapped by map_kind to the parser kind of that category;
\* only the label unknown and labels outside the writer's set map to the
\* unknown kind.
C17_MapKindCovers ==
  map_res # NULL =>
    LET q == Deref(map_res) IN
    IF q.label \in WriterLabels \ {tname(TOK_UNKNOWN)}
    THEN q.kind # PT_UNKNOWN /\ PTName(q.kind) = q.label
    ELSE q.kind = PT_UNKNOWN

(* ---------------- properties of the scanner's branches ---------------- *)

\* the latest token next_token returned
LastEmitted == emitted[Len(emitted)]

\* a call of next_token does not move the cursor back, and moves it forward
\* when the token returned is not eof
CursorAdvances ==
  pc = "lex" =>
    /\ L'.pos >= L.pos
    /\ emitted' # <<>>
    /\ emitted'[Len(emitted')].t.type # TOK_EOF => L'.pos > L.pos

\* every token other than eof spans at least one character, and every
\* unknown token is a well-formed one: it has a lexeme and a position
TokensConsume ==
  \A e \in Emitted :
    /\ e.from.pos <= e.to.pos
    /\ e.t.type # TOK_EOF => e.from.pos < e.to.pos
    /\ e.t.type = TOK_UNKNOWN => e.t.lexeme # NULL /\ Deref(e.t.lexeme) # <<>>

\* C18: every call of next_token that returns a token other than eof moves
\* the cursor strictly forward, on the branches that yield unknown too, and
\* no call moves it back; malformed input comes out as unknown tokens that
\* have a lexeme and have consumed at least one character.
C18_CursorMonotonic == [][CursorAdvances]_vars /\ []TokensConsume

\* malformed input was scanned: three unknown tokens in a row, each of which
\* moved the cursor
C18_Witness ==
  /\ Len(emitted) >= 3
  /\ \A i \in 1..3 : emitted[i].t.type = TOK_UNKNOWN /\ emitted[i].from.pos < emitted[i].to.pos
  /\ Deref(emitted[1].t.lexeme) = <<"&">>

\* the token e starts at the two characters of a block comment's opening
StartsBlockComment(e) ==
  /\ e.from.pos + 2 <= L.len
  /\ Slice(e.from.pos, e.from.pos + 2) = <<"/","*">>

\* the positions (from 0) of the '*' of the closings "*/" that lie after the
\* opening that starts at position p
Closings(p) ==
  { q \in (p + 2)..(L.len - 2) : L.buf[q + 1] = "*" /\ L.buf[q + 2] = "/" }

UnterminatedComment ==
  <<"<","u","n","t","e","r","m","i","n","a","t","e","d","_","c","o","m","m","e","n","t",">">>

\* C19: a token that starts at "/*" with no closing after it is one unknown
\* token with the lexeme <unterminated_comment> that consumes the rest of the
\* input and is followed at once by eof; with a closing after it the comment
\* ends at the first "*/" whose '*' lies after the opening.
C19_BlockComment ==
  \A i \in 1..Len(emitted) :
    LET e == emitted[i]
        p == e.from.pos
    IN StartsBlockComment(e) =>
         IF Closings(p) = {}
         THEN /\ e.t.type = TOK_UNKNOWN
              /\ e.t.lexeme # NULL
              /\ Deref(e.t.lexeme) = UnterminatedComment
              /\ e.to.pos = L.len
              /\ i < Len(emitted) => (i + 1 = Len(emitted) /\ emitted[i + 1].t.type = TOK_EOF)
              /\ pc = "lexed" => i + 1 = Len(emitted)
         ELSE /\ e.t.type = TOK_COMMENT
              /\ e.to.pos = (CHOOSE q \in Closings(p) : \A r \in Closings(p) : q <= r) + 2

\* a block comment that closes was scanned, and after it the text "/*/",
\* which came out as the unterminated comment followed by eof
C19_Witness ==
  /\ pc = "lexed"
  /\ \E e \in Emitted : StartsBlockComment(e) /\ e.t.type = TOK_COMMENT
  /\ \E e \in Emitted :
       /\ StartsBlockComment(e)
       /\ e.from.pos + 3 = L.len
       /\ L.buf[L.len] = "/"
       /\ e.t.type = TOK_UNKNOWN

\* the token e starts at a digit
StartsNumber(e) == e.from.pos < L.len /\ isdigit(L.buf[e.from.pos + 1])

\* the position after the maximal run of digits that starts at position p
DigitsEnd(p) ==
  CHOOSE q \in p..L.len :
    /\ \A k \in (p + 1)..q : isdigit(L.buf[k])
    /\ q = L.len \/ ~isdigit(L.buf[q + 1])

\* C20: a token that starts at a digit consumes the maximal run of digits;
\* with no '.' after the run it is a const_int whose lexeme is the run; with
\* '.' and a digit after it, it is a const_float whose lexeme is
\* digits.digits with the maximal second run; with '.' and no digit after it,
\* it is an unknown token that has consumed the digits and the dot only.
C20_ScanNumber ==
  \A e \in Emitted :
    StartsNumber(e) =>
      LET p  == e.from.pos
          d1 == DigitsEnd(p)
      IN IF d1 = L.len \/ L.buf[d1 + 1] # "."
         THEN /\ e.t.type = TOK_CONST_INT
              /\ Deref(e.t.lexeme) = Slice(p, d1)
              /\ e.to.pos = d1
         ELSE IF d1 + 1 < L.len /\ isdigit(L.buf[d1 + 2])
         THEN /\ e.t.type = TOK_CONST_FLOAT
              /\ Deref(e.t.lexeme) = Slice(p, DigitsEnd(d1 + 1))
              /\ e.to.pos = DigitsEnd(d1 + 1)
         ELSE /\ e.t.type = TOK_UNKNOWN
              /\ e.to.pos = d1 + 1

\* a float, a malformed float and an integer were scanned from one input
C20_Witness ==
  /\ \E e \in Emitted : StartsNumber(e) /\ e.t.type = TOK_CONST_FLOAT /\ e.to.pos >= e.from.pos + 4
  /\ \E e \in Emitted : StartsNumber(e) /\ e.t.type = TOK_UNKNOWN
  /\ \E e \in Emitted : StartsNumber(e) /\ e.t.type = TOK_CONST_INT

(* ---------------- string literals ---------------- *)

\* the token e starts at a double quote
StartsString(e) == e.from.pos < L.len /\ L.buf[e.from.pos + 1] = "\""

\* the position (from 0) of the first '"' at or after position q that no
\* backslash escapes, a backslash taking the character after it with it;
\* -1 when a newline or the end of the input comes before such a quote
RECURSIVE ClosingQuote(_)
ClosingQuote(q) ==
  IF q >= L.len THEN -1
  ELSE LET c == L.buf[q + 1] IN
       IF c = "\n" THEN -1
       ELSE IF c = "\"" THEN q
       ELSE IF c = "\\"
       THEN IF q + 1 < L.len /\ L.buf[q + 2] = "\n" THEN -1 ELSE ClosingQuote(q + 2)
       ELSE ClosingQuote(q + 1)

UnterminatedString ==
  <<"<","u","n","t","e","r","m","i","n","a","t","e","d","_","s","t","r","i","n","g",">">>

\* C21: a token that starts at '"' is a const_string whose lexeme is the
\* text between the opening quote and the first later '"' that no backslash
\* escapes, escapes kept as written, and that ends after that quote; when a
\* newline or the end of the input comes before such a quote it is an unknown
\* token with the lexeme <unterminated_string>.
C21_ScanString ==
  \A e \in Emitted :
    StartsString(e) =>
      LET p == e.from.pos
          q == ClosingQuote(p + 1)
      IN IF q = -1
         THEN /\ e.t.type = TOK_UNKNOWN
              /\ e.t.lexeme # NULL
              /\ Deref(e.t.lexeme) = UnterminatedString
         ELSE /\ e.t.type = TOK_CONST_STRING
              /\ e.t.lexeme # NULL
              /\ Deref(e.t.lexeme) = Slice(p + 1, q)
              /\ e.to.pos = q + 1

(* ---------------- boolean literals ---------------- *)

BoolWords == {<<"t","r","u","e">>, <<"f","a","l","s","e">>}

\* C22: boolean literals are case-sensitive: a word comes out as const_bool
\* if and only if it is exactly true or exactly false; True, False and every
\* other spelling are not boolean literals.
C22_BoolCaseSensitive ==
  \A e \in Emitted :
    StartsWord(e) =>
      LET w == Slice(e.from.pos, WordEnd(e.from.pos)) IN
      /\ e.t.type = TOK_CONST_BOOL <=> w \in BoolWords
      /\ is_bool_lit(Mem(w), Len(w)) # -1 <=> w \in BoolWords

(* ---------------- disjointness of the word categories ---------------- *)

\* which of the five classifiers accept the word the latest call of
\* is_keyword was about; the keyword answer is the one that call returned
Accepting(q) ==
  LET s    == Mem(q.s)
      cats == <<is_bool_lit(s, q.n) # -1,
                is_word_op(s, q.n).r # 0,
                is_type(s, q.n),
                q.r # 0,
                is_noise(s, q.n)>>
  IN { i \in 1..5 : cats[i] }

\* C23: no word satisfies more than one of is_bool_lit, is_word_op, is_type,
\* is_keyword and is_noise; hence every word is_noise accepts is classified
\* as noise and every word is_keyword accepts as keyword.
C23_CategoriesDisjoint ==
  kw_res # NULL =>
    LET q == Deref(kw_res) IN
    /\ Cardinality(Accepting(q)) <= 1
    /\ q.n > 0 /\ is_noise(Mem(q.s), q.n) => FirstCategory(q.s) = TOK_NOISE
    /\ q.r # 0 => FirstCategory(q.s) = TOK_KEYWORD

(* ---------------- the operator characters ---------------- *)

OperatorChars == {"+", "-", "*", "/", "%", "=", "<", ">", "!", "&", "|"}

\* C24: is_operator_char answers for every int value, 1 for the eleven
\* characters + - * / % = < > ! & | and 0 for every other value, the values
\* outside the character range included.
C24_OperatorChars ==
  cls_res # NULL /\ Deref(cls_res).f = "is_operator_char" =>
    LET q == Deref(cls_res) IN
    /\ q.r \in {0, 1}
    /\ q.r = 1 <=> q.c \in { Code(ch) : ch \in OperatorChars }

(* ---------------- match on both cursors ---------------- *)

\* the character at offset k of a text, the end-of-input sentinel past its end
NextChar(text, k) == IF k < Len(text) THEN text[k + 1] ELSE EOF

\* how many characters the stream cursor has consumed: those fgetc has
\* delivered, less the one held unread in current_char
StreamPos(S) == S.at - (IF S.current_char = EOF THEN 0 ELSE 1)

\* C30: match(expected) returns 1 and consumes exactly one character when
\* the next unread character is expected; otherwise it returns 0 and leaves
\* the read position, the line and the column as they were. This holds for
\* the cursor over the buffer and for the cursor over the stream.
C30_MatchFrame ==
  cur_res # NULL /\ Deref(cur_res).op = "match" =>
    LET q == Deref(cur_res) IN
    /\ IF NextChar(q.L0.buf, q.L0.pos) = q.expected
       THEN q.r = 1 /\ L.pos = q.L0.pos + 1
       ELSE q.r = 0 /\ L = q.L0
    /\ IF NextChar(q.S0.input, StreamPos(q.S0)) = q.expected
       THEN q.rs = 1 /\ StreamPos(SL) = StreamPos(q.S0) + 1
       ELSE q.rs = 0 /\ SL = q.S0
    /\ SL.current_char = NextChar(SL.input, StreamPos(SL))

\* after a match that failed on both cursors in the middle of the text, with
\* the cursors on the second line
C30_Witness ==
  /\ cur_res # NULL
  /\ Deref(cur_res).op = "match"
  /\ Deref(cur_res).r = 0 /\ Deref(cur_res).rs = 0
  /\ L.pos = 2 /\ L.line = 2 /\ L.pos < L.len
  /\ SL.line = 2 /\ SL.column = L.col

(* ---------------- nesting of the parse-tree trace ---------------- *)

\* The tags left open by the first k events of the trace, innermost last;
\* ok is FALSE once a close event does not bear the name of the innermost
\* open tag or finds no tag open.
RECURSIVE OpenTags(_)
OpenTags(k) ==
  IF k = 0 THEN [ok |-> TRUE, open |-> <<>>]
  ELSE LET s == OpenTags(k - 1)
           e == trace[k]
       IN IF ~s.ok THEN s
          ELSE IF e[1] = "open" THEN [s EXCEPT !.open = Append(@, e[2])]
          ELSE IF e[1] = "close"
          THEN IF s.open # <<>> /\ s.open[Len(s.open)] = e[2]
               THEN [s EXCEPT !.open = SubSeq(@, 1, Len(@) - 1)]
               ELSE [s EXCEPT !.ok = FALSE]
          ELSE s

\* parse_program has returned
ProgramReturned == pc = "done" \/ (pc = "parse" /\ stack = <<>>)

\* C25: on every token stream, error paths and early returns included, each
\* close_tag closes the innermost open tag and bears its name, the depth is
\* never negative and always the number of open tags (leaf tags open none),
\* and it is 0 with no tag open when parse_program has returned.
C25_TraceWellNested ==
  \E s \in {OpenTags(Len(trace))} :
    /\ s.ok
    /\ g_indent >= 0
    /\ g_indent = Len(s.open)
    /\ ProgramReturned => s.open = <<>> /\ g_indent = 0
    /\ \A k \in 1..Len(trace) : trace[k][1] \in {"open", "close", "leaf"}

\* a for statement whose update part returned early with an error was
\* parsed to the end, with leaf tags in the trace
C25_Witness ==
  /\ pc = "done"
  /\ \E e \in Range(errlog) : e.msg = "Expected identifier in for-update"
  /\ \E k \in 1..Len(trace) : trace[k] = <<"close", "forStatement", 1>>
  /\ \E k \in 1..Len(trace) : trace[k][1] = "leaf"

(* ---------------- the parser's token index ---------------- *)

\* no step of the syntax analyzer moves the token index back
IndexNeverDecreases == g_tok_index' >= g_tok_index

\* while the parser runs and after it, the index is that of a loaded token
\* and no token before it is an end-of-file token
IndexInRange ==
  pc \in {"parse", "done"} =>
    /\ 0 <= g_tok_index
    /\ g_tok_index <= g_tok_count - 1
    /\ \A i \in 0..(g_tok_index - 1) : Tok(i).kind # PT_EOF

\* C26: during a parse the token index never decreases and stays within
\* 0 .. g_tok_count-1; next_tok does nothing at the last token, so the parser
\* never rewinds and never moves past an eof token.
C26_IndexMonotonic == [][IndexNeverDecreases]_vars /\ []IndexInRange

\* a parse with errors has ended on the last token of a stream of more than
\* five tokens
C26_Witness ==
  /\ pc = "done"
  /\ g_error = 1
  /\ g_tok_count > 5
  /\ g_tok_index = g_tok_count - 1

(* ---------------- no early stop on errors ---------------- *)

\* when parse_program has returned, the current token is an end-of-file
\* token and every token before it has been passed
ReturnsAtEof ==
  ProgramReturned =>
    /\ cur_tok(Reg).kind = PT_EOF
    /\ \A i \in 0..(g_tok_index - 1) : Tok(i).kind # PT_EOF

\* a parse in which an error has been reported
ErrorReported == pc = "parse" /\ LastIsEof /\ g_error = 1

\* C27: the parser does not stop at an error: parse_program returns only
\* with the current token of kind eof, however many errors were reported, and
\* a parse that has reported an error still runs on to that point.
C27_NoEarlyStop ==
  /\ []ReturnsAtEof
  /\ ErrorReported ~> (pc = "done" /\ cur_tok(Reg).kind = PT_EOF)

\* a run has ended at eof with three or more errors reported and an
\* assignment statement parsed
C27_Witness ==
  /\ pc = "done"
  /\ Len(errlog) >= 3
  /\ cur_tok(Reg).kind = PT_EOF
  /\ \E k \in 1..Len(trace) : trace[k][1] = "close" /\ trace[k][2] = "assignStatement"

(* ---------------- trailing input ---------------- *)

\* the run has ended with tokens of the stream after the current one
TrailingInput == pc = "done" /\ g_tok_index < g_tok_count - 1

\* C28: when tokens of the loaded stream remain after parse_program has
\* returned (the current token is not the last one, the final eof), main
\* reports the additional error "Unexpected extra code after program" and
\* the error flag is set: no token is left unparsed without a report.
C28_TrailingInputReported ==
  TrailingInput =>
    /\ g_error = 1
    /\ verdict = "Program has syntax errors"
    /\ \E k \in 1..Len(errlog) : errlog[k].msg = "Unexpected extra code after program"

(* ---------------- token tables beyond the capacity ---------------- *)

\* C29: a table with more data rows than MAX_TOKENS is a fatal error: the
\* run does not go on to parse, and gives no verdict on, a token stream from
\* which rows were left out.
C29_CapacityIsFatal ==
  dropped > 0 => pc \notin {"parse", "done"} /\ verdict = "none"

(* ---------------- the read offset of both cursors ---------------- *)

\* no cursor call moves either cursor back
OffsetNeverDecreases ==
  pc = "cursor" => L'.pos >= L.pos /\ StreamPos(SL') >= StreamPos(SL)

\* the offsets lie within the text
OffsetInRange ==
  pc = "cursor" =>
    /\ 0 <= L.pos /\ L.pos <= L.len
    /\ 0 <= StreamPos(SL) /\ StreamPos(SL) <= Len(SL.input)

\* peek and advance at the end of the input return the sentinel and leave
\* the cursor as it was
SentinelAtEnd ==
  cur_res # NULL /\ Deref(cur_res).op \in {"peek", "advance"} =>
    LET q == Deref(cur_res) IN
    /\ q.L0.pos = q.L0.len => q.r = EOF /\ L = q.L0
    /\ StreamPos(q.S0) = Len(q.S0.input) => q.rs = EOF /\ SL = q.S0

\* C31: after any sequence of peek, advance, match and skip_ws calls the
\* read offset has never decreased and lies in 0..len; at the end of the
\* input peek and advance return the end-of-input sentinel and leave offset,
\* line and column unchanged.
C31_OffsetMonotonic ==
  /\ [][OffsetNeverDecreases]_vars
  /\ []OffsetInRange
  /\ []SentinelAtEnd

\* advance was called at the end of a three-character text whose second
\* line the cursors had reached
C31_Witness ==
  /\ cur_res # NULL
  /\ Deref(cur_res).op = "advance"
  /\ Deref(cur_res).L0.pos = 3 /\ L.len = 3
  /\ Deref(cur_res).r = EOF /\ Deref(cur_res).rs = EOF
  /\ L.line = 2 /\ SL.line = 2

(* ---------------- line and column of both cursors ---------------- *)

\* the offsets (from 1) of the newlines among the first k characters
NewlinesIn(text, k) == { i \in 1..k : text[i] = "\n" }

\* the line of the character after the first k characters of the text
LineAfter(text, k) == 1 + Cardinality(NewlinesIn(text, k))

\* its column: 1 plus the characters after the last of those newlines
ColumnAfter(text, k) ==
  LET nl   == NewlinesIn(text, k)
      last == IF nl = {} THEN 0 ELSE CHOOSE i \in nl : \A j \in nl : j <= i
  IN 1 + k - last

\* C32: after any sequence of cursor calls from line 1, column 1, the line
\* is 1 plus the number of newlines consumed and the column 1 plus the number
\* of characters consumed since the last consumed newline: they are the
\* position of the next unread character.
C32_LineColumn ==
  pc = "cursor" =>
    /\ L.line = LineAfter(L.buf, L.pos)
    /\ L.col = ColumnAfter(L.buf, L.pos)
    /\ SL.line = LineAfter(SL.input, StreamPos(SL))
    /\ SL.column = ColumnAfter(SL.input, StreamPos(SL))

\* both cursors stand after a newline and one more character
C32_Witness ==
  /\ pc = "cursor"
  /\ cur_res # NULL
  /\ L.pos = 3 /\ L.buf[2] = "\n"
  /\ L.line = 2 /\ L.col = 2
  /\ SL.line = 2 /\ SL.column = 2


(* ---------------- C33 ---------------- *)

\* the strings a trie is asked about
TrieQueries ==
  TrieWords \cup Range(KEYWORDS) \cup {<<"e", "l">>, <<"i", "f", "a", "b">>, <<"b", "a", "b", "a">>}

\* the nodes of the subtree of node, itself included
RECURSIVE NodeCount(_)
NodeCount(node) ==
  LET ChildCount[i \in 0..node.cSize] ==
        IF i = 0 THEN 0 ELSE ChildCount[i - 1] + NodeCount(node.children[i])
  IN  1 + ChildCount[node.cSize]

\* the nodes of a trie
TrieSize(head) ==
  LET RootCount[i \in 0..head.sSize] ==
        IF i = 0 THEN 0 ELSE RootCount[i - 1] + NodeCount(Deref(head.start[i]))
  IN  RootCount[head.sSize]

\* two tries answer every query alike
SameAnswers(h1, h2) ==
  \A q \in TrieQueries : dfa_match(h1, Mem(q), Len(q)) = dfa_match(h2, Mem(q), Len(q))

\* the step inserts a word that an earlier insertion already put in
DuplicateInsert ==
  /\ pc = "trie"
  /\ words' # words
  /\ words'[Len(words')] \in Range(words)

\* one more build_keyword_dfa() or is_keyword() call on the built trie
RebuildKeepsTrie ==
  (pc = "trie" /\ kw_dfa_built = 1) =>
    \E g \in {[kw_dfa |-> kw_dfa, kw_dfa_built |-> kw_dfa_built]} :
      /\ build_keyword_dfa(g) = g
      /\ \A q \in TrieQueries \ {<<>>} : is_keyword(g, Mem(q), Len(q)).G = g

\* C33: inserting with dfa_add_symbol a word that is already present adds no
\* node and leaves the answer of dfa_match to every string as it was, and so
\* does one more call of build_keyword_dfa or is_keyword once the keyword trie
\* is built
C33_InsertIdempotent ==
  /\ [][DuplicateInsert =>
          /\ TrieSize(kw_dfa') = TrieSize(kw_dfa)
          /\ SameAnswers(kw_dfa', kw_dfa)]_vars
  /\ []RebuildKeepsTrie

\* a keyword trie into which a keyword and a word of the run were inserted again
C33_Witness ==
  /\ pc = "trie"
  /\ kw_dfa_built = 1
  /\ Len(words) = KEYWORD_COUNT + 3
  /\ words[KEYWORD_COUNT + 1] = <<"i", "f">>
  /\ words[KEYWORD_COUNT + 2] = <<"a", "b">>
  /\ words[KEYWORD_COUNT + 3] = <<"a", "b">>

(* ---------------- C34 ---------------- *)

\* no two of the children of node carry the same character, and so below
RECURSIVE SiblingsDiffer(_)
SiblingsDiffer(node) ==
  /\ \A i, j \in 1..node.cSize :
       i # j => node.children[i].val # node.children[j].val
  /\ \A i \in 1..node.cSize : SiblingsDiffer(node.children[i])

\* no two start nodes carry the same first character
RootsDiffer(head) ==
  \A i, j \in 1..head.sSize :
    i # j => Deref(head.start[i]).val # Deref(head.start[j]).val

\* C34: after any sequence of dfa_add_symbol insertions no two children of
\* the same trie node carry the same character, and no two start nodes carry
\* the same first character
C34_SiblingsUnique ==
  pc = "trie" =>
    /\ RootsDiffer(kw_dfa)
    /\ \A i \in 1..kw_dfa.sSize : SiblingsDiffer(Deref(kw_dfa.start[i]))

\* three insertions that met an existing root and an existing child: the
\* trie has two start nodes and a node with two children
C34_Witness ==
  /\ pc = "trie"
  /\ kw_dfa_built = 0
  /\ words = << <<"a", "b", "a">>, <<"b", "a">>, <<"a", "b", "b">> >>
  /\ kw_dfa.sSize = 2
  /\ Deref(kw_dfa.start[1]).children[1].cSize = 2

(* ---------------- C37 ---------------- *)

\* the words put into the trie: those of the insertions, the empty one apart,
\* which dfa_add_symbol returns on
InsertedWords == Range(words) \ {<<>>}

\* an inserted word is a proper prefix of an earlier one, and another a proper
\* extension of an earlier one
PrefixThenExtension ==
  \E i, j, k, l \in 1..Len(words) :
    /\ i < j /\ k < l
    /\ words[j] # <<>>
    /\ Len(words[j]) < Len(words[i])
    /\ SubSeq(words[i], 1, Len(words[j])) = words[j]
    /\ Len(words[l]) > Len(words[k])
    /\ words[k] # <<>>
    /\ SubSeq(words[l], 1, Len(words[k])) = words[k]

\* C37: whatever words were inserted with dfa_add_symbol and in whatever
\* order, a word that is a proper prefix or a proper extension of an earlier
\* one included, dfa_match answers 1 for a string exactly when that string was
\* inserted
C37_MatchIffInserted ==
  pc = "trie" =>
    \A q \in TrieQueries :
      (dfa_match(kw_dfa, Mem(q), Len(q)) = 1) <=> (q \in InsertedWords)

\* a trie on its own after a word, then a proper prefix of it, then a proper
\* extension of that prefix
C37_Witness ==
  /\ pc = "trie"
  /\ kw_dfa_built = 0
  /\ Len(words) = MaxInserts
  /\ PrefixThenExtension
  /\ <<"a", "b">> \in InsertedWords
  /\ dfa_match(kw_dfa, Mem(<<"a", "b">>), 2) = 1
  /\ dfa_match(kw_dfa, Mem(<<"a">>), 1) = 0

(* ---------------- the grammar as a recogniser ---------------- *)

\* t[i] is a token of kind kind spelled lex
Is(t, i, kind, lex) == i <= Len(t) /\ t[i].kind = kind /\ t[i].lexeme = lex

\* t[i] is a token of one of the kinds
IsKind(t, i, kinds) == i <= Len(t) /\ t[i].kind \in kinds

\* t[i] is an operator token spelled as one of ops
IsOp(t, i, ops) == i <= Len(t) /\ t[i].kind = PT_OPERATOR /\ t[i].lexeme \in ops

RelOps == {<<"=","=">>, <<"!","=">>, <<"<">>, <<"<","=">>, <<">">>, <<">","=">>}
AddOps == {<<"+">>, <<"-">>, <<"|","|">>}
MulOps == {<<"*">>, <<"/">>, <<"%">>, <<"&","&">>}
Literals == {PT_INTCONST, PT_FLOATCONST, PT_CHARCONST, PT_BOOLCONST}

\* Each Ends operator gives, for a nonterminal and an index i, the set of the
\* indices j such that the tokens t[i] .. t[j-1] derive the nonterminal.
RECURSIVE EndsFactor(_, _)
RECURSIVE EndsTerm(_, _)
RECURSIVE EndsSimpleExpr(_, _)
RECURSIVE EndsExpression(_, _)
RECURSIVE EndsStatement(_, _)
RECURSIVE EndsBlock(_, _)
RECURSIVE EndsStmtList(_, _)
RECURSIVE Repeat(_, _, _, _)

\* the ends of { op X } after ends S of X; kind is "term" for X = factor with
\* the operators of term, and "simple" for X = term with those of simple_expr
Repeat(t, S, ops, kind) ==
  LET more == UNION { IF IsOp(t, j, ops)
                      THEN IF kind = "term" THEN EndsFactor(t, j + 1)
                                            ELSE EndsTerm(t, j + 1)
                      ELSE {} : j \in S }
  IN  IF more \subseteq S THEN S ELSE Repeat(t, S \cup more, ops, kind)

\* factor -> IDENTIFIER | literal | '(' expression ')'
EndsFactor(t, i) ==
  IF IsKind(t, i, {PT_IDENTIFIER} \cup Literals) THEN {i + 1}
  ELSE IF Is(t, i, PT_SYMBOL, <<"(">>)
  THEN { j + 1 : j \in { k \in EndsExpression(t, i + 1) : Is(t, k, PT_SYMBOL, <<")">>) } }
  ELSE {}

\* term -> factor { ('*'|'/'|'%'|'&&') factor }
EndsTerm(t, i) == Repeat(t, EndsFactor(t, i), MulOps, "term")

\* simple_expr -> term { ('+'|'-'|'||') term }
EndsSimpleExpr(t, i) == Repeat(t, EndsTerm(t, i), AddOps, "simple")

\* expression -> simple_expr [ relop simple_expr ]
EndsExpression(t, i) ==
  LET S == EndsSimpleExpr(t, i)
  IN  S \cup UNION { IF IsOp(t, j, RelOps) THEN EndsSimpleExpr(t, j + 1) ELSE {} : j \in S }

\* the indices after a ';' that stands at one of the indices S
AfterSemi(t, S) == { j + 1 : j \in { k \in S : Is(t, k, PT_SYMBOL, <<";">>) } }

\* assign_upd -> IDENTIFIER '=' expression
EndsAssignUpd(t, i) ==
  IF IsKind(t, i, {PT_IDENTIFIER}) /\ Is(t, i + 1, PT_OPERATOR, <<"=">>)
  THEN EndsExpression(t, i + 2)
  ELSE {}

\* 'kw' '(' expression ')' , the head of if_stmt and while_stmt
EndsCondition(t, i, kw) ==
  IF Is(t, i, PT_KEYWORD, kw) /\ Is(t, i + 1, PT_SYMBOL, <<"(">>)
  THEN { j + 1 : j \in { k \in EndsExpression(t, i + 2) : Is(t, k, PT_SYMBOL, <<")">>) } }
  ELSE {}

\* statement -> decl_stmt | input_stmt | print_stmt | assign_stmt | if_stmt
\*            | while_stmt | for_stmt
EndsStatement(t, i) ==
  IF IsKind(t, i, {PT_TYPE})
  THEN IF IsKind(t, i + 1, {PT_IDENTIFIER}) THEN AfterSemi(t, {i + 2}) ELSE {}
  ELSE IF Is(t, i, PT_KEYWORD, <<"i","n","p","u","t">>)
  THEN IF IsKind(t, i + 1, {PT_IDENTIFIER}) THEN AfterSemi(t, {i + 2}) ELSE {}
  ELSE IF Is(t, i, PT_KEYWORD, <<"p","r","i","n","t">>)
          \/ Is(t, i, PT_KEYWORD, <<"w","r","i","t","e","l","n">>)
  THEN AfterSemi(t, EndsExpression(t, i + 1))
  ELSE IF IsKind(t, i, {PT_IDENTIFIER})
  THEN AfterSemi(t, EndsAssignUpd(t, i))
  ELSE IF Is(t, i, PT_KEYWORD, <<"i","f">>)
  THEN LET B == UNION { EndsBlock(t, j) : j \in EndsCondition(t, i, <<"i","f">>) }
       IN  B \cup UNION { IF Is(t, j, PT_KEYWORD, <<"e","l","s","e">>)
                          THEN EndsBlock(t, j + 1) ELSE {} : j \in B }
  ELSE IF Is(t, i, PT_KEYWORD, <<"w","h","i","l","e">>)
  THEN UNION { EndsBlock(t, j) : j \in EndsCondition(t, i, <<"w","h","i","l","e">>) }
  ELSE IF Is(t, i, PT_KEYWORD, <<"f","o","r">>) /\ Is(t, i + 1, PT_SYMBOL, <<"(">>)
  THEN LET init == AfterSemi(t, EndsAssignUpd(t, i + 2))
           cond == AfterSemi(t, UNION { EndsExpression(t, j) : j \in init })
           upd  == UNION { EndsAssignUpd(t, j) : j \in cond }
           head == { j + 1 : j \in { k \in upd : Is(t, k, PT_SYMBOL, <<")">>) } }
       IN  UNION { EndsBlock(t, j) : j \in head }
  ELSE {}

\* block -> '{' stmt_list '}' | statement
EndsBlock(t, i) ==
  IF Is(t, i, PT_SYMBOL, <<"{">>)
  THEN { j + 1 : j \in { k \in EndsStmtList(t, {i + 1}) : Is(t, k, PT_SYMBOL, <<"}">>) } }
  ELSE EndsStatement(t, i)

\* stmt_list -> { statement }, from any of the indices S
EndsStmtList(t, S) ==
  LET more == UNION { EndsStatement(t, j) : j \in S }
  IN  IF more \subseteq S THEN S ELSE EndsStmtList(t, S \cup more)

\* program -> stmt_list EOF: t is a sentence
IsSentence(t) ==
  /\ t # <<>>
  /\ t[Len(t)].kind = PT_EOF
  /\ Len(t) \in EndsStmtList(t, {1})

(* ---------------- C35 ---------------- *)

\* the parser was given a stream whose last token is an eof token
StreamEndsInEof ==
  /\ g_tokens # <<>>
  /\ g_tok_count = Len(g_tokens)
  /\ g_tokens[Len(g_tokens)].kind = PT_EOF

\* the stream holds no eof token before its last token
OneEof == \A i \in 1..(Len(g_tokens) - 1) : g_tokens[i].kind # PT_EOF

\* the run ended on a stream that is no sentence of the grammar
NonSentenceParsed == pc = "done" /\ StreamEndsInEof /\ ~IsSentence(g_tokens)

\* C35: the parser accepts no more than the grammar: for every token stream
\* ending in eof that is not a sentence of the grammar at least one syntax
\* error is reported and the error flag is set
C35_AcceptsNoMore ==
  NonSentenceParsed => (g_error = 1 /\ errlog # <<>>)

(* ---------------- C36 ---------------- *)

ElseWord == <<"e","l","s","e">>

\* the trace event k prints an else keyword
ElseLeaf(k) ==
  trace[k][1] = "leaf" /\ trace[k][2] = "keyword" /\ trace[k][4] = ElseWord

\* the tag that encloses the trace event k directly: the last one opened
\* before k one level up
Enclosing(k) ==
  CHOOSE j \in 1..(k - 1) :
    /\ trace[j][1] = "open" /\ trace[j][3] = trace[k][3] - 1
    /\ \A i \in (j + 1)..(k - 1) : ~(trace[i][1] = "open" /\ trace[i][3] = trace[k][3] - 1)

\* the ifStatement tags opened up to the trace event j
IfsOpenedUpTo(j) ==
  Cardinality({ i \in 1..j : trace[i][1] = "open" /\ trace[i][2] = "ifStatement" })

\* the ifStatement tags closed before the trace event k
IfsClosedBefore(k) ==
  Cardinality({ i \in 1..(k - 1) : trace[i][1] = "close" /\ trace[i][2] = "ifStatement" })

\* every else printed belongs to the ifStatement opened last among those
\* still open, and that one has printed no else before
ElseBelongsToNearestIf ==
  \A k \in 1..Len(trace) :
    ElseLeaf(k) =>
      /\ trace[Enclosing(k)][2] = "ifStatement"
      /\ \A i \in (Enclosing(k) + 1)..(k - 1) :
           /\ ~(ElseLeaf(i) /\ trace[i][3] = trace[k][3])
           /\ (trace[i][1] = "open" /\ trace[i][2] = "ifStatement") =>
                \E c \in (i + 1)..(k - 1) :
                  /\ trace[c][1] = "close" /\ trace[c][2] = "ifStatement"
                  /\ trace[c][3] = trace[i][3]

\* the tokens of if (x) if (x) x = 5; else x = x;
NestedIf ==
  TokensOf(<<rIf, rLp, rId, rRp, rIf, rLp, rId, rRp, rId, rAssign, rNum, rSemi,
             rElse, rId, rAssign, rId, rSemi>>)

\* on the nested example the else is printed inside the second ifStatement,
\* before any ifStatement is closed
InnerIfTakesElse ==
  (Loaded /\ GivenEndsInEof /\ Given = NestedIf) =>
    \A k \in 1..Len(trace) :
      ElseLeaf(k) => IfsOpenedUpTo(Enclosing(k)) = 2 /\ IfsClosedBefore(k) = 0

\* the current token is the keyword else
CurIsElse == IsKeyword(Reg, ElseWord)

\* the step is a return of parse_if_stmt that has consumed no else
IfReturnsWithoutElse ==
  /\ At("parse_if_stmt", "else")
  /\ Len(stack') = Len(stack) - 1

\* C36: an else attaches to the nearest preceding if that is still open and
\* has no else yet: in if (a) if (b) s1 else s2 the inner parse_if_stmt
\* consumes the else, and when a parse_if_stmt that has consumed no else
\* returns, the current token is not the keyword else
C36_ElseToNearestIf ==
  /\ [](Loaded => ElseBelongsToNearestIf)
  /\ []InnerIfTakesElse
  /\ [][IfReturnsWithoutElse => ~CurIsElse']_vars

\* the run on if (x) if (x) x = 5; else x = x; has ended without an error;
\* the else was printed and the outer parse_if_stmt returned without one
C36_Witness ==
  /\ pc = "done"
  /\ GivenEndsInEof
  /\ Given = NestedIf
  /\ CleanVerdict
  /\ \E k \in 1..Len(trace) : ElseLeaf(k) /\ IfsOpenedUpTo(Enclosing(k)) = 2
  /\ IfsClosedBefore(Len(trace)) = 2

(* ---------------- C38 ---------------- *)

\* the diagnostic tags of the lexical anomalies
DiagnosticTags ==
  { UnterminatedString,
    <<"<","u","n","t","e","r","m","i","n","a","t","e","d","_","c","h","a","r",">">>,
    UnterminatedComment,
    <<"<","b","a","d","_","f","l","o","a","t",">">> }

\* the emitted token e is an unknown token for an anomaly: it starts at a
\* quote, an apostrophe, a slash or a digit, where a lone character is never
\* unknown
AnomalyToken(e) ==
  /\ e.t.type = TOK_UNKNOWN
  /\ e.from.pos < L.len
  /\ L.buf[e.from.pos + 1] \in {"\"", "'", "/", "1"}

\* C38: every unknown token emitted for a lexical anomaly carries as its
\* lexeme one of the complete tags <unterminated_string>, <unterminated_char>,
\* <unterminated_comment> and <bad_float>, closing '>' included and nothing
\* after it
C38_CompleteTags ==
  \A i \in 1..Len(emitted) :
    AnomalyToken(emitted[i]) =>
      /\ emitted[i].t.lexeme # NULL
      /\ Deref(emitted[i].t.lexeme) \in DiagnosticTags

(* ---------------- C39 ---------------- *)

\* scan_comment has returned a comment token
CommentReturned ==
  /\ pc = "cmt_done"
  /\ cur_res # NULL
  /\ Deref(cur_res).type = TOK_COMMENT

\* C39: scan_comment of the modular scanner, started on "//", terminates on
\* every input: it consumes up to the end of the line or of the input and
\* returns a comment token
C39_CommentTerminates == (pc = "cmt_begin") ~> CommentReturned

====
